---- MODULE Spec2Model ----
(***************************************************************************)
(* Model of the payment-attempt generator of                               *)
(* src/data/python_scripts/insert_payments.py.                             *)
(*                                                                         *)
(* The generator is a sequential script.  Its state is the local state of  *)
(* run(): the list of rows built so far and the per-order locals of the    *)
(* attempt loop.  Every action is one draw from the seeded generator       *)
(* `rng` followed by the deterministic code that runs up to the next draw. *)
(* The value of a draw is an input, taken from a small set.                *)
(***************************************************************************)
EXTENDS Integers, Sequences, FiniteSets, TLC

\* ------------------------------------------------------------------------
\* Program constants
\* ------------------------------------------------------------------------

\* insert_payments.py:63
MAX_GLOBAL_ATTEMPTS == 4

\* insert_payments.py:66  {1: 45, 2: 32, 3: 18, 4: 5}; the key is the index.
\* The weights sum to 100, so the normalised weights of line 67, written in
\* hundredths, are these same numbers.
GLOBAL_ATTEMPT_DIST == <<45, 32, 18, 5>>

\* insert_payments.py:381  the status id of a cancelled order
CANCELLED_STATUS == 5

\* insert_payments.py:146-154  code -> id of the payment_status table
status_id_by_code == [paid |-> 1, failed |-> 2]

\* ------------------------------------------------------------------------
\* Bounds of the model
\* ------------------------------------------------------------------------

\* insert_payments.py:70 sets 48 * 60 * 60; the model keeps the arithmetic of
\* the window and scales its length down.
PAYMENT_WINDOW_SECONDS == 6

\* Longest input sequence of orders.
MaxOrders == 1

\* Longest list of rows handed to insert_payments_in_batches.
MaxRows == 7

\* insert_payments.py:84 sets BATCH_SIZE to 20000; the model takes it from
\* 0..MaxBatchSize.
MaxBatchSize == 4

\* Largest weight of a mapping given to normalize_distribution.
MaxWeight == 3

\* Number of products among which sample_unique_products_weighted draws,
\* largest weight of a product and largest number of products asked for.
MaxProducts == 3
MaxProductWeight == 1
MaxK == 3

\* The calendar of insert_orders.py, scaled down: the lengths of a minute,
\* an hour, a day and a month, and the number of months of the window
\* [ORDERS_START, ORDERS_END_EXCL) (lines 68-69).
SecondsPerMinute == 2
MinutesPerHour == 2
HoursPerDay == 2
DaysPerMonth == 2
MaxMonths == 2

\* Longest customer_plan given to generate_order_rows, and largest number of
\* orders a customer can be given (the largest key of ORDERS_PER_CUSTOMER,
\* line 64).
MaxPlan == 2
MaxQuota == 1

\* Largest number of rounds of quotas plan_orders_for_customers is followed
\* for (its counter `attempt`, line 271).
MaxRounds == 3

\* ------------------------------------------------------------------------
\* Input domains
\* ------------------------------------------------------------------------

\* Values rng.random() may return, in hundredths: a float in [0, 1).
RandomValues == {0, 50, 80, 99}

\* The codes the payment_methods table may hold, with the id of each.  The
\* table may hold a method the configuration does not name ("cash") and may
\* lack one it names.
TableIds == [cash |-> 1, card |-> 2, paypal |-> 3]
TableCodeSets == {{"card", "paypal"}, {"cash", "paypal"}}

\* The entries PAYMENT_METHOD_CONFIG (lines 73-78) may hold for its first and
\* for its second key.  Probabilities and rates are in hundredths.
CardConfigs ==
    [code : {"card"}, weight : {1}, max_attempts : {0, 1, 5},
     stay_with_method_prob : {50}, success_rate : {0, 50, 100}]
PaypalConfigs ==
    [code : {"paypal"}, weight : {0, 1}, max_attempts : {1},
     stay_with_method_prob : {50}, success_rate : {50}]

OrderStatuses == {4, CANCELLED_STATUS}
OrderDates == {100}
OrderTotals == {250}

VARIABLES
    config,             \* PAYMENT_METHOD_CONFIG: sequence of method records
    method_id_by_code,  \* code -> id, from fetch_payment_methods
    orders,             \* the list fetch_orders_with_totals returns
    run,                \* the locals of run()
    run2,               \* the locals of a second run() (same seed, same inputs)
    store,              \* run() seen from the storage collaborator
    call                \* one call of a function of the distribution engine

vars == <<config, method_id_by_code, orders, run, run2, store, call>>

\* ------------------------------------------------------------------------
\* Helpers
\* ------------------------------------------------------------------------

Min(a, b) == IF a < b THEN a ELSE b
Max(a, b) == IF a > b THEN a ELSE b

RECURSIVE SumSeq(_)
SumSeq(s) == IF s = <<>> THEN 0 ELSE s[1] + SumSeq(Tail(s))

\* sorted(chosen): the elements of a set of integers in increasing order
RECURSIVE SortedSeq(_)
SortedSeq(S) ==
    IF S = {} THEN <<>>
    ELSE LET m == CHOOSE x \in S : \A y \in S : x <= y
         IN  <<m>> \o SortedSeq(S \ {m})

Range(s) == {s[i] : i \in DOMAIN s}

\* ------------------------------------------------------------------------
\* Weighted draw (insert_payments.py:37-45 and random.choices)
\* ------------------------------------------------------------------------

\* weighted_choice_key raises ValueError: "Empty weights." (line 42), or
\* random.choices' "Total of weights must be greater than zero" (line 45).
ChoiceRaises(vals) == Len(vals) = 0 \/ SumSeq(vals) <= 0

\* bisect.bisect_right(a, x, lo, hi) of the standard library, with the
\* indices of Python (a[mid] is the element mid + 1 of the sequence); x is
\* given in hundredths, as the product u * total.
RECURSIVE bisect(_, _, _, _)
bisect(cum_weights, x100, lo, hi) ==
    IF lo < hi
    THEN LET mid == (lo + hi) \div 2
         IN  IF x100 < cum_weights[mid + 1] * 100
             THEN bisect(cum_weights, x100, lo, mid)
             ELSE bisect(cum_weights, x100, mid + 1, hi)
    ELSE lo

\* rng.choices(keys, weights=vals, k=1)[0] when rng.random() returns u/100:
\* population[bisect(cum_weights, random() * total, 0, n - 1)].
weighted_choice_key(keys, vals, u) ==
    LET n           == Len(keys)
        total       == SumSeq(vals)
        cum_weights == [i \in 1..n |-> SumSeq(SubSeq(vals, 1, i))]
    IN  keys[bisect(cum_weights, u * total, 0, n - 1) + 1]

\* ------------------------------------------------------------------------
\* Configuration lookups
\* ------------------------------------------------------------------------

Codes == [i \in DOMAIN config |-> config[i].code]

Cfg(m) == config[CHOOSE i \in DOMAIN config : config[i].code = m]

\* Variant of lines 192-193, 205-206 and 332-333 that reads the global cap
\* only.
MethodCapGlobalOnly(m) == MAX_GLOBAL_ATTEMPTS

\* min(max_m, MAX_GLOBAL_ATTEMPTS), lines 192-193, 205-206, 332-333
MethodCap(m) == Min(Cfg(m).max_attempts, MAX_GLOBAL_ATTEMPTS)

\* insert_payments.py:184-186
build_method_weights == [i \in DOMAIN config |-> config[i].weight]

\* insert_payments.py:188-195
available_methods_by_cap(method_counts) ==
    SelectSeq(Codes, LAMBDA m : method_counts[m] < MethodCap(m))

\* Variant of lines 215-216 and 335-336 that removes nothing.
WithoutNothing(list, m) == list

\* available.remove(current), lines 215-216 and 335-336
Without(list, m) == SelectSeq(list, LAMBDA x : x # m)

\* {m: weight of m for m in available}, lines 220 and 338
WeightsOf(list) == [i \in DOMAIN list |-> Cfg(list[i]).weight]

\* ------------------------------------------------------------------------
\* Rows (the tuples appended to `rows`, lines 356-378 and 394-403)
\* ------------------------------------------------------------------------

\* lines 356-365 and 394-403: amount = order.order_total, status "paid"
PaidRow(order, attempt_no, t, method_id) ==
    [order_id |-> order.order_id, attempt_no |-> attempt_no, payment_date |-> t,
     amount_paid |-> order.order_total, payment_method_id |-> method_id,
     payment_status_id |-> status_id_by_code.paid]

\* Variant of lines 369-378 that records the order total on a failed row.
FailedRowWithTotal(order, attempt_no, t, method_id) ==
    [order_id |-> order.order_id, attempt_no |-> attempt_no, payment_date |-> t,
     amount_paid |-> order.order_total, payment_method_id |-> method_id,
     payment_status_id |-> status_id_by_code.failed]

\* lines 369-378: amount = Decimal("0.00"), status "failed"
FailedRow(order, attempt_no, t, method_id) ==
    [order_id |-> order.order_id, attempt_no |-> attempt_no, payment_date |-> t,
     amount_paid |-> 0, payment_method_id |-> method_id,
     payment_status_id |-> status_id_by_code.failed]

\* ------------------------------------------------------------------------
\* Forced resolution (lines 380-406)
\* ------------------------------------------------------------------------

\* Variants of the test of lines 380-381: without `not paid`, and without
\* the test of the status.
ForcedWhateverPaid(paid, order_status) == order_status # CANCELLED_STATUS
ForcedWhateverStatus(paid, order_status) == ~paid

\* lines 380-381
NeedsForcedResolution(paid, order_status) ==
    ~paid /\ order_status # CANCELLED_STATUS

\* Variant of lines 383-386 without the added second.
ForcedTimeSameSecond(attempt_times, order_date) ==
    IF Len(attempt_times) > 0
    THEN attempt_times[Len(attempt_times)]
    ELSE order_date

\* lines 383-386
ForcedTime(attempt_times, order_date) ==
    IF Len(attempt_times) > 0
    THEN attempt_times[Len(attempt_times)] + 1
    ELSE order_date + 1

\* next(iter(method_id_by_code.values())), line 391: the table is read
\* ORDER BY payment_method_id ASC (line 137), so the first value is the
\* lowest id.
FirstTableId ==
    CHOOSE i \in Range(method_id_by_code) :
        \A j \in Range(method_id_by_code) : i <= j

\* Variant of lines 389-391 that always takes the first id of the table.
ForcedMethodIdFirstOfTable(current_method) == FirstTableId

\* lines 389-391
ForcedMethodId(current_method) ==
    IF current_method \in DOMAIN method_id_by_code
    THEN method_id_by_code[current_method]
    ELSE FirstTableId

\* The list `orders` of line 299 that the run r reads: the one of the state,
\* or the one r carries when runs on two lists of orders are compared.
InputOf(r) == IF "orders" \in DOMAIN r THEN r.orders ELSE orders

\* The end of one iteration of `for order in orders` (lines 380-406), then
\* the next order, or the end of the generation loop.
EndOrder(r) ==
    LET order  == InputOf(r)[r.oi]
        forced == NeedsForcedResolution(r.paid, order.order_status)
        row    == PaidRow(order, r.attempt_no + 1,
                          ForcedTime(r.attempt_times, order.order_date),
                          ForcedMethodId(r.current_method))
        r1     == IF forced
                  THEN [r EXCEPT !.attempt_no = @ + 1, !.rows = Append(@, row)]
                  ELSE r
    IN  [r1 EXCEPT !.oi = @ + 1,
                   !.pc = IF r.oi < Len(InputOf(r)) THEN "plan" ELSE "generated"]

\* An uncaught ValueError leaves run() through `finally` (lines 418-427 catch
\* only mysql.connector.Error and RuntimeError): nothing is inserted.
Raise(r) == [r EXCEPT !.pc = "raised"]

\* ------------------------------------------------------------------------
\* The attempt loop (lines 321-378)
\* ------------------------------------------------------------------------

\* Variant of lines 344-345 that leaves the counter of the method alone.
AttemptWithoutCount(r) ==
    [r EXCEPT !.attempt_no = @ + 1,
              !.pc = "success"]

\* Variant of lines 344-345 that leaves attempt_no alone.
AttemptWithoutNumber(r) ==
    [r EXCEPT !.method_counts[r.method] = @ + 1,
              !.pc = "success"]

\* lines 344-345; the next statement that draws is line 348
Attempt(r) ==
    [r EXCEPT !.method_counts[r.method] = @ + 1,
              !.attempt_no = @ + 1,
              !.pc = "success"]

\* Variant of lines 331-342 without the check of the cap.
CapCheckSkipped(r) == Attempt(r)

\* lines 331-342: the per-method cap
CapCheck(r) ==
    IF r.method_counts[r.method] >= MethodCap(r.method)
    THEN LET alt_avail == Without(available_methods_by_cap(r.method_counts), r.method)
         IN  IF Len(alt_avail) > 0
             THEN IF ChoiceRaises(WeightsOf(alt_avail))
                  THEN Raise(r)
                  ELSE [r EXCEPT !.pc = "alt"]
             ELSE EndOrder(r)                   \* break, line 342
    ELSE Attempt(r)

\* lines 328-329: method = pick_next_method(...); current_method = method
Picked(r, m) == CapCheck([r EXCEPT !.method = m, !.current_method = m])

\* Variant of lines 211-221 in which a switch that finds no other method
\* under its cap ends the attempts of the order.
AfterStayBreaks(r, stay) ==
    IF stay
    THEN Picked(r, r.current_method)
    ELSE LET available == Without(available_methods_by_cap(r.method_counts),
                                  r.current_method)
         IN  IF Len(available) = 0
             THEN EndOrder(r)
             ELSE IF ChoiceRaises(WeightsOf(available))
                  THEN Raise(r)
                  ELSE [r EXCEPT !.pc = "switch"]

\* pick_next_method once `stay` is known (lines 211-221)
AfterStay(r, stay) ==
    IF stay
    THEN Picked(r, r.current_method)
    ELSE LET available == Without(available_methods_by_cap(r.method_counts),
                                  r.current_method)
         IN  IF Len(available) = 0
             THEN Picked(r, r.current_method)   \* line 218
             ELSE IF ChoiceRaises(WeightsOf(available))
                  THEN Raise(r)
                  ELSE [r EXCEPT !.pc = "switch"]

\* Variant of lines 206-209 that draws the stay coin whatever the counter of
\* the current method.
EnterPickAlwaysCoin(r) == [r EXCEPT !.pc = "stay"]

\* pick_next_method up to the stay draw (lines 203-209)
EnterPick(r) ==
    IF r.method_counts[r.current_method] >= MethodCap(r.current_method)
    THEN AfterStay(r, FALSE)
    ELSE [r EXCEPT !.pc = "stay"]

\* The head of `for t in attempt_times` (lines 321-329); r.ti is the index of
\* the timestamp the iteration takes.
NextTimestamp(r) ==
    IF r.ti > Len(r.attempt_times) \/ r.paid
    THEN EndOrder(r)
    ELSE IF r.attempt_no = 0
         THEN CapCheck([r EXCEPT !.method = r.current_method])
         ELSE EnterPick(r)

\* ------------------------------------------------------------------------
\* The draws: what each statement that reads `rng` does with the value
\* ------------------------------------------------------------------------

\* Variant of line 229 that draws the offsets from the whole window.
MaxSecondsWholeWindow == Max(1, PAYMENT_WINDOW_SECONDS)

\* max_seconds, line 229
MaxSeconds == Max(1, PAYMENT_WINDOW_SECONDS - 2)

\* draw_total_attempts_planned (lines 239-241)
draw_total_attempts_planned(u) ==
    Min(weighted_choice_key([i \in DOMAIN GLOBAL_ATTEMPT_DIST |-> i],
                            GLOBAL_ATTEMPT_DIST, u),
        MAX_GLOBAL_ATTEMPTS)

\* line 312, and sorted_attempt_times up to its loop (lines 227-232)
AfterPlanDraw(r, u) ==
    LET n == draw_total_attempts_planned(u)
    IN  [r EXCEPT !.planned_attempts = n,
                  !.n_attempts = Min(n, MaxSeconds),
                  !.chosen = {},
                  !.pc = "offsets"]

\* base_dt + timedelta(seconds=s) for s in sorted(chosen), lines 236-237
TimesOf(base_dt, chosen) ==
    LET offsets == SortedSeq(chosen)
    IN  [i \in DOMAIN offsets |-> base_dt + offsets[i]]

\* chosen.add(rng.randint(1, max_seconds)) (lines 233-234); when the set is
\* full, the function returns (lines 236-237) and line 315 is next.
AfterOffsetDraw(r, s) ==
    LET chosen == r.chosen \cup {s}
    IN  IF Cardinality(chosen) < r.n_attempts
        THEN [r EXCEPT !.chosen = chosen]
        ELSE LET r1 == [r EXCEPT !.chosen = chosen,
                                 !.attempt_times =
                                     TimesOf(InputOf(r)[r.oi].order_date, chosen)]
             IN  IF ChoiceRaises(build_method_weights)
                 THEN Raise(r1)
                 ELSE [r1 EXCEPT !.pc = "initial"]

\* Variant of lines 315-319 that does not reset attempt_no (line 319).
AfterInitialDrawKeepsAttemptNo(r, u) ==
    NextTimestamp(
        [r EXCEPT !.current_method = weighted_choice_key(Codes, build_method_weights, u),
                  !.method_counts = [m \in Range(Codes) |-> 0],
                  !.paid = FALSE,
                  !.ti = 1])

\* lines 315-319, then the first iteration of the attempt loop
AfterInitialDraw(r, u) ==
    NextTimestamp(
        [r EXCEPT !.current_method = weighted_choice_key(Codes, build_method_weights, u),
                  !.method_counts = [m \in Range(Codes) |-> 0],
                  !.paid = FALSE,
                  !.attempt_no = 0,
                  !.ti = 1])

\* stay = rng.random() <= stay_prob, line 209
StayDecision(u, stay_prob) == u <= stay_prob

AfterStayDraw(r, u) ==
    AfterStay(r, StayDecision(u, Cfg(r.current_method).stay_with_method_prob))

\* line 221
AfterSwitchDraw(r, u) ==
    LET available == Without(available_methods_by_cap(r.method_counts),
                             r.current_method)
    IN  Picked(r, weighted_choice_key(available, WeightsOf(available), u))

\* lines 339-340
AfterAltDraw(r, u) ==
    LET alt_avail == Without(available_methods_by_cap(r.method_counts), r.method)
        m         == weighted_choice_key(alt_avail, WeightsOf(alt_avail), u)
    IN  Attempt([r EXCEPT !.method = m, !.current_method = m])

\* Variant of line 348 with the comparison inverted.
IsSuccessAboveRate(u, success_rate) == u >= success_rate

\* is_success = rng.random() < success_rate, line 348
IsSuccess(u, success_rate) == u < success_rate

\* Variant of lines 347-378 that looks the method id up after the test of
\* is_success: a success of a method without id marks the order paid.
AfterSuccessDrawPaidWithoutId(r, u) ==
    LET order      == InputOf(r)[r.oi]
        t          == r.attempt_times[r.ti]
        is_success == IsSuccess(u, Cfg(r.method).success_rate)
    IN  IF is_success
        THEN EndOrder(
               IF r.method \in DOMAIN method_id_by_code
               THEN [r EXCEPT !.rows = Append(@, PaidRow(order, r.attempt_no, t,
                                                         method_id_by_code[r.method])),
                              !.paid = TRUE]
               ELSE [r EXCEPT !.paid = TRUE])
        ELSE IF r.method \notin DOMAIN method_id_by_code
             THEN NextTimestamp([r EXCEPT !.ti = @ + 1])
             ELSE NextTimestamp(
                    [r EXCEPT !.rows = Append(@, FailedRow(order, r.attempt_no, t,
                                                           method_id_by_code[r.method])),
                              !.ti = @ + 1])

\* lines 347-378, then the next turn of the loop
AfterSuccessDraw(r, u) ==
    LET order      == InputOf(r)[r.oi]
        t          == r.attempt_times[r.ti]
        is_success == IsSuccess(u, Cfg(r.method).success_rate)
    IN  IF r.method \notin DOMAIN method_id_by_code
        THEN NextTimestamp([r EXCEPT !.ti = @ + 1])          \* continue, line 353
        ELSE LET method_id == method_id_by_code[r.method]
             IN  IF is_success
                 THEN EndOrder(                              \* break, line 367
                        [r EXCEPT !.rows = Append(@, PaidRow(order, r.attempt_no, t, method_id)),
                                  !.paid = TRUE])
                 ELSE NextTimestamp(
                        [r EXCEPT !.rows = Append(@, FailedRow(order, r.attempt_no, t, method_id)),
                                  !.ti = @ + 1])

\* ------------------------------------------------------------------------
\* The storage collaborator (the connection of lines 291-292 and its table
\* `payments`) and the batch insert (lines 252-279)
\* ------------------------------------------------------------------------

\* Variant of line 292 in which every statement is committed as it is
\* executed.
AutocommitOn == TRUE

\* conn.autocommit = False, line 292
autocommit == FALSE

\* The i-th row of a generated list: the paid row of the first attempt of the
\* i-th order (lines 356-365).
Row(i) ==
    PaidRow([order_id |-> 100 + i, order_total |-> 250], 1, 101, TableIds.card)

Rows(n) == [i \in 1..n |-> Row(i)]

\* The concatenation of a sequence of chunks.
RECURSIVE Flatten(_)
Flatten(chunks) ==
    IF chunks = <<>> THEN <<>> ELSE Head(chunks) \o Flatten(Tail(chunks))

\* insert_customers.py:398-408, the loop of the generator and its last yield
RECURSIVE BatchedLoop(_, _, _, _)
BatchedLoop(items, size, batch, yielded) ==
    IF items = <<>>
    THEN IF batch # <<>> THEN Append(yielded, batch) ELSE yielded
    ELSE LET b == Append(batch, Head(items))
         IN  IF size # 0 /\ Len(b) >= size
             THEN BatchedLoop(Tail(items), size, <<>>, Append(yielded, b))
             ELSE BatchedLoop(Tail(items), size, b, yielded)

\* insert_customers.py:384-408: the lists the generator yields, in order
batched(iterable, size) == BatchedLoop(iterable, size, <<>>, <<>>)

\* Variant of line 266 that flushes once the buffer exceeds the threshold.
BufferOverfull(buf, batch_size) == batch_size # 0 /\ Len(buf) > batch_size

\* `batch_size and len(buf) >= batch_size`, line 266
BufferFull(buf, batch_size) == batch_size # 0 /\ Len(buf) >= batch_size

\* The state of run() between two calls of the storage collaborator, when
\* the connection has been opened (line 291).
\*   old   : the content of `payments` when the connection was opened
\*   table : the committed content of `payments`
\*   tx    : the content of `payments` the open transaction sees
\*   handed: the lists given to cur.executemany, in order
\*   log   : the calls made on the connection, in order
InitStore(old, batch_size) ==
    [pc |-> "fetch", error |-> "none",
     old |-> old, table |-> old, tx |-> old,
     rows |-> <<>>, batch_size |-> batch_size,
     i |-> 0, buf |-> <<>>, total |-> 0, batches |-> 0,
     result |-> <<>>, handed |-> <<>>, log |-> <<>>]

Logged(st, name) == [st EXCEPT !.log = Append(@, name)]

\* A statement that changes `payments` to `content`: the change is in the
\* open transaction, and committed at once under autocommit.
Written(st, content) ==
    [st EXCEPT !.tx = content,
               !.table = IF autocommit THEN content ELSE @]

\* conn.commit(), lines 268, 275, 304
commit(st) == Logged([st EXCEPT !.table = st.tx], "commit")

\* conn.rollback(), lines 419, 423
rollback(st) == Logged([st EXCEPT !.tx = st.table], "rollback")

\* conn.close(), line 427: what is not committed is lost.
close(st) == Logged([st EXCEPT !.tx = st.table], "close")

\* Variant of lines 302-304 with CLEAR_EXISTING_PAYMENTS off: nothing is
\* deleted.
KeepExistingPayments(st) == Logged(st, "delete")

\* clear_existing_payments (lines 160-178): DELETE of the payments of the
\* orders with a total, the orders the run generates payments for.
clear_existing_payments(st) == Written(Logged(st, "delete"), <<>>)

\* Variant of lines 302-304 without the commit of line 304.
ClearWithoutCommit(st) == clear_existing_payments(st)

\* lines 302-304: the clearing and its commit
ClearAndCommit(st) == commit(clear_existing_payments(st))

\* Variant of lines 418-425 that catches RuntimeError only.
CaughtRuntimeOnly(kind) == kind = "runtime"

\* The exceptions the clauses of lines 418 and 422 catch.
Caught(kind) == kind \in {"mysql", "runtime"}

\* An exception of the given kind leaves the `try` of line 294: the clause
\* that catches it rolls back and returns (lines 418-425), an exception no
\* clause catches propagates; `finally` closes the connection (line 427).
Except(st, kind) ==
    LET st1 == [st EXCEPT !.error = kind]
    IN  IF Caught(kind)
        THEN [close(rollback(st1)) EXCEPT !.pc = "returned"]
        ELSE [close(st1) EXCEPT !.pc = "raised"]

\* `return total, batches` (lines 260, 279), the report of lines 412-416, and
\* the end of run() through `finally` (line 427).
Return(st) ==
    [close([st EXCEPT !.result = <<st.total, st.batches>>]) EXCEPT !.pc = "returned"]

\* The answers of the collaborator to one flush (lines 267-268, 274-275):
\* both calls succeed, executemany raises after k rows, or commit raises.
FlushAnswers(buf) ==
    {[call |-> "none", k |-> Len(buf)], [call |-> "commit", k |-> Len(buf)]}
        \cup {[call |-> "executemany", k |-> k] : k \in 0..(Len(buf) - 1)}

\* Variant of lines 267-270 and 274-277 that does not count the batch.
FlushWithoutBatchCount(st, a) ==
    LET st1 == Logged([st EXCEPT !.handed = Append(@, st.buf)], "executemany")
        st2 == Written(st1, st1.tx \o SubSeq(st.buf, 1, a.k))
    IN  IF a.call = "executemany"
        THEN Except(st2, "mysql")
        ELSE IF a.call = "commit"
             THEN Except(Logged(st2, "commit"), "mysql")
             ELSE [commit(st2) EXCEPT !.total = @ + Len(st.buf)]

\* cur.executemany(SQL_INSERT_PAYMENT, buf); conn.commit(); total += len(buf);
\* batches += 1 (lines 267-270, 274-277), with the answer `a` of the
\* collaborator.
Flush(st, a) ==
    LET st1 == Logged([st EXCEPT !.handed = Append(@, st.buf)], "executemany")
        st2 == Written(st1, st1.tx \o SubSeq(st.buf, 1, a.k))
    IN  IF a.call = "executemany"
        THEN Except(st2, "mysql")
        ELSE IF a.call = "commit"
             THEN Except(Logged(st2, "commit"), "mysql")
             ELSE [commit(st2) EXCEPT !.total = @ + Len(st.buf),
                                      !.batches = @ + 1]

\* The end of insert_payments_in_batches once the loop is over with an empty
\* buffer (lines 273, 279).
LoopTurnDone(st) ==
    IF st.pc = "insert" /\ st.i = Len(st.rows) /\ st.buf = <<>>
    THEN Return(st)
    ELSE st

\* lines 258-263: nothing is done for an empty list of rows
StartInsert(st) ==
    LET st1 == [st EXCEPT !.total = 0, !.batches = 0, !.i = 0, !.buf = <<>>]
    IN  IF st1.rows = <<>>
        THEN Return(st1)
        ELSE [st1 EXCEPT !.pc = "insert"]

\* ------------------------------------------------------------------------
\* The distribution engine: normalize_distribution (lines 24-35)
\* ------------------------------------------------------------------------

\* The keys and the weights of the mappings given to the function; a mapping
\* {key: weight} is a function from a set of keys to the weights.
Keys == {"A", "B", "C"}
Weights == (-1)..MaxWeight
Distributions == UNION {[S -> Weights] : S \in SUBSET Keys}

\* sum(dist.values()), line 32
RECURSIVE Total(_)
Total(dist) ==
    IF DOMAIN dist = {} THEN 0
    ELSE LET k == CHOOSE x \in DOMAIN dist : TRUE
         IN  dist[k] + Total([x \in DOMAIN dist \ {k} |-> dist[x]])

\* Variant of lines 30-31 that lets negative weights through.
NoNegativeCheck(dist) == FALSE

\* any(v < 0 for v in dist.values()), line 30
AnyNegative(dist) == \E k \in DOMAIN dist : dist[k] < 0

\* Variant of line 35 that returns the weight as it is.
Unnormalised(v, total) == [num |-> v, den |-> 1]

\* float(v) / total, line 35: the quotient, as the fraction num / den
Quotient(v, total) == [num |-> v, den |-> total]

\* What a call gives back: the value it returns, or the ValueError it raises.
Returned(value) == [kind |-> "return", msg |-> "", value |-> value]
Raised(msg) == [kind |-> "raise", msg |-> msg, value |-> <<>>]

\* insert_payments.py:24-35
normalize_distribution(dist) ==
    IF DOMAIN dist = {}
    THEN Raised("Distribution is empty.")
    ELSE IF AnyNegative(dist)
         THEN Raised("Distribution weights cannot be negative.")
         ELSE LET total == Total(dist)
              IN  IF total <= 0
                  THEN Raised("Distribution must have positive weights.")
                  ELSE Returned([k \in DOMAIN dist |-> Quotient(dist[k], total)])

\* ------------------------------------------------------------------------
\* The weighted single-key draw: weighted_choice_key of insert_payments.py
\* (lines 37-45), choose_weighted_key of insert_order_items.py (lines
\* 157-165) and weighted_choice_key of insert_returns.py (lines 38-46)
\* ------------------------------------------------------------------------

\* A mapping as the draw sees it: its items in the order of insertion, which
\* list(weights.keys()) and list(weights.values()) keep.
Items ==
    UNION {{it \in [1..n -> [key : Keys, weight : Weights]] :
               \A i, j \in 1..n : i # j => it[i].key # it[j].key}
           : n \in 0..Cardinality(Keys)}

KeysOf(items) == [i \in DOMAIN items |-> items[i].key]
ValsOf(items) == [i \in DOMAIN items |-> items[i].weight]

\* insert_payments.py:37-45.  Line 41 refuses the empty mapping; nothing else
\* is checked before rng.choices, which raises ValueError("Total of weights
\* must be greater than zero") when the weights sum to zero or less.
payments_weighted_choice_key(items, u) ==
    IF Len(items) = 0
    THEN Raised("Empty weights.")
    ELSE IF ChoiceRaises(ValsOf(items))
         THEN Raised("Total of weights must be greater than zero")
         ELSE Returned(weighted_choice_key(KeysOf(items), ValsOf(items), u))

\* insert_order_items.py:157-165, the same statements
choose_weighted_key(items, u) == payments_weighted_choice_key(items, u)

\* insert_returns.py:38-46; lines 44-45 check the weights before the draw.
returns_weighted_choice_key(items, u) ==
    IF Len(items) = 0
    THEN Raised("Empty weights.")
    ELSE IF (\E i \in DOMAIN items : items[i].weight < 0)
               \/ SumSeq(ValsOf(items)) <= 0
         THEN Raised("Invalid weights (negatives or non-positive sum).")
         ELSE Returned(weighted_choice_key(KeysOf(items), ValsOf(items), u))

DrawFunctions ==
    {"insert_payments.weighted_choice_key",
     "insert_order_items.choose_weighted_key",
     "insert_returns.weighted_choice_key"}

DrawResult(fn, items, u) ==
    CASE fn = "insert_payments.weighted_choice_key" ->
             payments_weighted_choice_key(items, u)
      [] fn = "insert_order_items.choose_weighted_key" ->
             choose_weighted_key(items, u)
      [] fn = "insert_returns.weighted_choice_key" ->
             returns_weighted_choice_key(items, u)

\* ------------------------------------------------------------------------
\* sample_unique_products_weighted (insert_order_items.py:168-205)
\* ------------------------------------------------------------------------

Products == 1..MaxProducts
ProductWeights == (-1)..MaxProductWeight
SampleSizes == (-1)..MaxK

\* candidate_ids: the callers pass lists of pairwise distinct product ids.
Candidates ==
    UNION {{c \in [1..n -> Products] : \A i, j \in 1..n : i # j => c[i] # c[j]}
           : n \in 0..MaxProducts}

\* weights_map: a weight for some of the candidates.
WeightMaps(candidate_ids) ==
    UNION {[S -> ProductWeights] : S \in SUBSET Range(candidate_ids)}

\* weights_map.get(pid, 1.0), line 183
WeightOf(weights_map, pid) ==
    IF pid \in DOMAIN weights_map THEN weights_map[pid] ELSE 1

\* Variant of lines 194-199 that swaps and leaves the last element in place.
SwapOnly(list, idx) ==
    [i \in 1..Len(list) |->
        IF i = idx THEN list[Len(list)]
        ELSE IF i = Len(list) THEN list[idx] ELSE list[i]]

\* Variant of lines 194-199 that pops the last element without the swap.
PopOnly(list, idx) == [i \in 1..(Len(list) - 1) |-> list[i]]

\* lines 194-199: the element at idx is swapped with the last one, which is
\* then popped (idx counts from 1 here).
SwapPop(list, idx) ==
    [i \in 1..(Len(list) - 1) |-> IF i = idx THEN list[Len(list)] ELSE list[i]]

\* The call before its first statement.
SampleCall(candidate_ids, weights_map, k) ==
    [fn |-> "sample_unique_products_weighted", done |-> FALSE, pc |-> "call",
     candidate_ids |-> candidate_ids, weights_map |-> weights_map, k_arg |-> k,
     k |-> k, pool |-> <<>>, weights |-> <<>>, chosen |-> <<>>, rounds |-> 0,
     result |-> Raised("")]

\* lines 178-186
EnterSample(c) ==
    IF c.k_arg <= 0 \/ Len(c.candidate_ids) = 0
    THEN [c EXCEPT !.done = TRUE, !.pc = "done", !.result = Returned(<<>>)]
    ELSE [c EXCEPT !.pc = "round",
                   !.pool = c.candidate_ids,
                   !.weights = [i \in DOMAIN c.candidate_ids |->
                                   WeightOf(c.weights_map, c.candidate_ids[i])],
                   !.k = Min(c.k_arg, Len(c.candidate_ids))]

\* lines 188-205: one turn of the loop, rng.random() giving u/100 inside
\* rng.choices (line 190), which raises when the weights sum to zero or less.
SampleRound(c, u) ==
    IF ChoiceRaises(c.weights)
    THEN [c EXCEPT !.done = TRUE, !.pc = "done",
                   !.result = Raised("Total of weights must be greater than zero")]
    ELSE LET idx == weighted_choice_key([i \in DOMAIN c.pool |-> i], c.weights, u)
             c1  == [c EXCEPT !.chosen = Append(@, c.pool[idx]),
                              !.pool = SwapPop(@, idx),
                              !.weights = SwapPop(@, idx),
                              !.rounds = @ + 1]
         IN  IF (Len(c1.weights) > 0 /\ SumSeq(c1.weights) <= 0)
                    \/ c1.rounds = c1.k
             THEN [c1 EXCEPT !.done = TRUE, !.pc = "done",
                             !.result = Returned(c1.chosen)]
             ELSE c1

\* ------------------------------------------------------------------------
\* The order generator of insert_orders.py: plan_orders_for_customers
\* (lines 263-288), random_order_datetime (lines 197-245) and
\* generate_order_rows (lines 291-334).  A datetime is a number of seconds
\* counted from ORDERS_START.
\* ------------------------------------------------------------------------

SecondsPerHour == MinutesPerHour * SecondsPerMinute
SecondsPerDay == HoursPerDay * SecondsPerHour
SecondsPerMonth == DaysPerMonth * SecondsPerDay

\* lines 68-69: both are the first instant of a month.
ORDERS_START == 0
ORDERS_END_EXCL == MaxMonths * SecondsPerMonth

\* d.date() and datetime(d.year, d.month, 1) of a datetime
DateOf(t) == t \div SecondsPerDay
MonthStartOf(t) == (t \div SecondsPerMonth) * SecondsPerMonth

\* datetime(day.year, day.month, day.day, h, m, s), line 245
DatetimeOf(day, h, m, s) ==
    day * SecondsPerDay + h * SecondsPerHour + m * SecondsPerMinute + s

\* The list `months` of lines 212-221: the part of every month from that of
\* `start` to that of `end_excl` that lies in [start, end_excl).
MonthWindows(start, end_excl) ==
    {w \in {[m_start   |-> Max(cur, start),
             m_end_excl |-> Min(cur + SecondsPerMonth, end_excl)] :
                cur \in {c \in MonthStartOf(start)..MonthStartOf(end_excl) :
                            c % SecondsPerMonth = 0}} :
        w.m_start < w.m_end_excl}

\* The days of lines 226-235: from the day of m_start to the day of the last
\* second of the window, every one with a positive weight.
DaysOf(w) == DateOf(w.m_start)..DateOf(w.m_end_excl - 1)

\* The customers and their activation (fetch_customer_ids, lines 96-118, and
\* fetch_customer_activation, lines 123-132): before the window, in the
\* middle of a day of the window, and at its end.
CustomerIds == {1, 2}
ActivationTimes ==
    {ORDERS_START - 1, SecondsPerDay + SecondsPerHour + 1, ORDERS_END_EXCL}
ActivationMaps == [CustomerIds -> ActivationTimes]

\* fetch_order_status_ids (lines 136-158)
status_map == [delivered |-> 4, cancelled |-> 5]

\* customer_plan: one customer id per order
CustomerPlans == UNION {[1..n -> CustomerIds] : n \in 0..MaxPlan}

\* ORDERS_PER_CUSTOMER (line 64), its keys up to MaxQuota; every key has a
\* positive weight.
Buckets == 0..MaxQuota

\* The locals of run() (lines 420-466) and of the functions it calls.
\*   quotas : the quota drawn for the customers so far, in the order of
\*            customer_ids (line 178)
\*   pi     : the index in customer_plan of the order being dated (line 314)
\*   pairs  : the (dt, cid) pairs (line 321), sorted from line 327 on
\*   si     : the index of the pair that gets its status next (line 330)
OrdersLocals(customer_ids, activation_map, min_total_orders) ==
    [fn |-> "insert_orders.run", done |-> FALSE, pc |-> "quota",
     customer_ids |-> customer_ids, activation_map |-> activation_map,
     min_total_orders |-> min_total_orders,
     quotas |-> <<>>, customer_plan |-> <<>>,
     pi |-> 0, cust_start |-> 0, m_start |-> 0, m_end_excl |-> 0,
     day |-> 0, hour |-> 0, minute |-> 0,
     pairs |-> <<>>, si |-> 0, rows |-> <<>>, result |-> Raised("")]

\* quotas_to_orders (lines 181-194): every customer repeated quota times.
RECURSIVE quotas_to_orders(_, _)
quotas_to_orders(customer_ids, quotas) ==
    IF Len(quotas) = 0
    THEN <<>>
    ELSE [i \in 1..Head(quotas) |-> Head(customer_ids)]
            \o quotas_to_orders(Tail(customer_ids), Tail(quotas))

\* pairs.sort(key=lambda t: t[0]), line 327: a stable sort by date.
RECURSIVE SortedPairs(_)
SortedPairs(pairs) ==
    IF Len(pairs) <= 1
    THEN pairs
    ELSE LET init == SortedPairs(SubSeq(pairs, 1, Len(pairs) - 1))
             last == pairs[Len(pairs)]
             k    == Cardinality({i \in DOMAIN init : init[i].dt <= last.dt})
         IN  SubSeq(init, 1, k) \o <<last>> \o SubSeq(init, k + 1, Len(init))

\* max(start, activation_map.get(cid, start)), line 315
CustStart(l, i) ==
    Max(ORDERS_START,
        IF l.customer_plan[i] \in DOMAIN l.activation_map
        THEN l.activation_map[l.customer_plan[i]]
        ELSE ORDERS_START)

\* `return rows` and `return []` of generate_order_rows (lines 307, 324, 334)
ReturnRows(l) == [l EXCEPT !.done = TRUE, !.pc = "done", !.result = Returned(l.rows)]

\* The loop of lines 313-321 from the plan index i on: occurrences of
\* customers active only after the window are skipped (lines 316-318); the
\* next one goes to random_order_datetime.  After the loop, lines 323-327.
RECURSIVE NextCustomer(_, _)
NextCustomer(l, i) ==
    IF i > Len(l.customer_plan)
    THEN IF l.pairs = <<>>
         THEN ReturnRows(l)
         ELSE [l EXCEPT !.pi = i, !.pairs = SortedPairs(l.pairs),
                        !.si = 1, !.pc = "status"]
    ELSE IF CustStart(l, i) >= ORDERS_END_EXCL
         THEN NextCustomer(l, i + 1)
         ELSE [l EXCEPT !.pi = i, !.cust_start = CustStart(l, i), !.pc = "month"]

\* generate_order_rows is called (lines 306-311).
EnterGenerate(l) ==
    IF l.customer_plan = <<>> THEN ReturnRows(l) ELSE NextCustomer(l, 1)

\* Variant of lines 280-288 that keeps the plan whatever its length.
AfterQuotaDrawAnyLength(l, q) ==
    LET quotas == Append(l.quotas, q)
    IN  IF Len(quotas) < Len(l.customer_ids)
        THEN [l EXCEPT !.quotas = quotas]
        ELSE [l EXCEPT !.quotas = quotas,
                       !.customer_plan = quotas_to_orders(l.customer_ids, quotas),
                       !.pc = "shuffle"]

\* build_customer_quotas (line 178): rng.choices draws the quota of the next
\* customer; after the last one, lines 280-288: the plan is kept when it is
\* long enough (min_total_orders 0 stands for None too), and the quotas are
\* drawn again otherwise.
AfterQuotaDraw(l, q) ==
    LET quotas == Append(l.quotas, q)
    IN  IF Len(quotas) < Len(l.customer_ids)
        THEN [l EXCEPT !.quotas = quotas]
        ELSE LET plan == quotas_to_orders(l.customer_ids, quotas)
             IN  IF Len(plan) >= l.min_total_orders
                 THEN [l EXCEPT !.quotas = quotas, !.customer_plan = plan,
                                !.pc = "shuffle"]
                 ELSE [l EXCEPT !.quotas = <<>>]

\* The permutations rng.shuffle (line 283) can leave a list of n elements in.
ShuffleOrders(n) ==
    {f \in [1..n -> 1..n] : \A i, j \in 1..n : i # j => f[i] # f[j]}

\* rng.shuffle(plan), line 283, then lines 453-467 of run()
AfterShuffle(l, perm) ==
    LET plan == [i \in DOMAIN l.customer_plan |-> l.customer_plan[perm[i]]]
        l1   == [l EXCEPT !.customer_plan = plan]
    IN  IF plan = <<>>
        THEN [l1 EXCEPT !.done = TRUE, !.pc = "done", !.result = Returned(<<>>)]
        ELSE EnterGenerate(l1)

\* line 223
AfterMonthDraw(l, w) ==
    [l EXCEPT !.m_start = w.m_start, !.m_end_excl = w.m_end_excl, !.pc = "day"]

\* line 237
AfterDayDraw(l, d) == [l EXCEPT !.day = d, !.pc = "hour"]

\* line 242
AfterHourDraw(l, h) == [l EXCEPT !.hour = h, !.pc = "minute"]

\* line 243
AfterMinuteDraw(l, m) == [l EXCEPT !.minute = m, !.pc = "second"]

\* lines 244-245, then line 321 and the next turn of the loop of line 313
AfterSecondDraw(l, s) ==
    LET dt == DatetimeOf(l.day, l.hour, l.minute, s)
    IN  NextCustomer([l EXCEPT !.pairs = Append(@, [dt |-> dt,
                                                    cid |-> l.customer_plan[l.pi]])],
                     l.pi + 1)

\* lines 330-334
AfterStatusDraw(l, status_code) ==
    LET pair == l.pairs[l.si]
        l1   == [l EXCEPT !.rows = Append(@, [customer_id |-> pair.cid,
                                              order_date |-> pair.dt,
                                              order_status_id |-> status_map[status_code],
                                              created_at |-> pair.dt,
                                              updated_at |-> pair.dt]),
                          !.si = @ + 1]
    IN  IF l1.si > Len(l1.pairs) THEN ReturnRows(l1) ELSE l1

\* The values a draw can give at each program point, and what follows.
DrawValues(l) ==
    CASE l.pc = "quota"   -> Buckets
      [] l.pc = "shuffle" -> ShuffleOrders(Len(l.customer_plan))
      [] l.pc = "month"   -> MonthWindows(l.cust_start, ORDERS_END_EXCL)
      [] l.pc = "day"     -> DaysOf(l)
      [] l.pc = "hour"    -> 0..(HoursPerDay - 1)
      [] l.pc = "minute"  -> 0..(MinutesPerHour - 1)
      [] l.pc = "second"  -> 0..(SecondsPerMinute - 1)
      [] l.pc = "status"  -> {"delivered", "cancelled"}
      [] OTHER            -> {}

AfterDraw(l, v) ==
    CASE l.pc = "quota"   -> AfterQuotaDraw(l, v)
      [] l.pc = "shuffle" -> AfterShuffle(l, v)
      [] l.pc = "month"   -> AfterMonthDraw(l, v)
      [] l.pc = "day"     -> AfterDayDraw(l, v)
      [] l.pc = "hour"    -> AfterHourDraw(l, v)
      [] l.pc = "minute"  -> AfterMinuteDraw(l, v)
      [] l.pc = "second"  -> AfterSecondDraw(l, v)
      [] l.pc = "status"  -> AfterStatusDraw(l, v)

\* run() from the fetches to the call of plan_orders_for_customers (lines
\* 426-452): only the customers active before the end of the window are
\* planned for, and the minimum must be within reach.
EnterRun(customer_ids, activation_map, min_total_orders) ==
    LET eligible_customers ==
            SelectSeq(customer_ids, LAMBDA cid : activation_map[cid] < ORDERS_END_EXCL)
        l == OrdersLocals(eligible_customers, activation_map, min_total_orders)
    IN  IF eligible_customers = <<>>
               \/ min_total_orders > Len(eligible_customers) * MaxQuota
        THEN [l EXCEPT !.done = TRUE, !.pc = "raised",
                       !.result = Raised("RuntimeError")]
        ELSE l

\* The draws that call the functions of the module `random` (lines 223, 237,
\* 242) and not the methods of `rng`: they read the generator of the module,
\* which nothing seeds.
ModuleDraws == {"month", "day", "hour"}

\* No call is being made.
NoCall == [fn |-> "none", done |-> TRUE, dist |-> <<>>, result |-> Raised("")]

\* ------------------------------------------------------------------------
\* Initial states
\* ------------------------------------------------------------------------

\* The configurations: one method, or two.  With two methods the first one
\* keeps the rate at which an attempt may both succeed and fail.
Configs ==
    {<<c>> : c \in CardConfigs}
        \cup {<<c, p>> : c \in {x \in CardConfigs : x.success_rate = 50},
                         p \in PaypalConfigs}

\* The configurations under which runs on two lists of orders are compared:
\* two methods with a weight, the first with a cap of one attempt.
TwoInputConfigs ==
    {c \in Configs : Len(c) = 2 /\ c[1].max_attempts = 1 /\ c[2].weight = 1}

\* fetch_payment_methods (lines 136-143); it raises on an empty table.
Tables == {[c \in D |-> TableIds[c]] : D \in TableCodeSets}

\* fetch_orders_with_totals (lines 109-133): ORDER BY order_id, total > 0,
\* and a RuntimeError when there is no row.
OrderLists ==
    UNION {{o \in [1..n -> [order_id : 101..(100 + n), order_date : OrderDates,
                            order_status : OrderStatuses, order_total : OrderTotals]] :
               \A i \in 1..n : o[i].order_id = 100 + i}
           : n \in 1..MaxOrders}

\* The locals of run() when the loop over the orders begins (line 311).
InitRun ==
    [pc |-> "plan", oi |-> 1, rows |-> <<>>,
     planned_attempts |-> 0, n_attempts |-> 0, chosen |-> {},
     attempt_times |-> <<>>, ti |-> 0,
     current_method |-> "none", method |-> "none",
     method_counts |-> [m \in Range(Codes) |-> 0],
     paid |-> FALSE, attempt_no |-> 0]

Init ==
    /\ config \in Configs
    /\ method_id_by_code \in Tables
    /\ orders \in OrderLists
    /\ run = InitRun
    /\ run2 = InitRun
    /\ store = InitStore(<<>>, 0)
    /\ call = NoCall

\* ------------------------------------------------------------------------
\* Actions: one per statement that draws from rng
\* ------------------------------------------------------------------------

inputs == <<config, method_id_by_code, orders>>

DrawPlanned ==
    /\ run.pc = "plan"
    /\ \E u \in RandomValues : run' = AfterPlanDraw(run, u)
    /\ UNCHANGED <<inputs, run2, store, call>>

DrawOffset ==
    /\ run.pc = "offsets"
    /\ \E s \in 1..MaxSeconds : run' = AfterOffsetDraw(run, s)
    /\ UNCHANGED <<inputs, run2, store, call>>

DrawInitialMethod ==
    /\ run.pc = "initial"
    /\ \E u \in RandomValues : run' = AfterInitialDraw(run, u)
    /\ UNCHANGED <<inputs, run2, store, call>>

DrawStay ==
    /\ run.pc = "stay"
    /\ \E u \in RandomValues : run' = AfterStayDraw(run, u)
    /\ UNCHANGED <<inputs, run2, store, call>>

DrawSwitch ==
    /\ run.pc = "switch"
    /\ \E u \in RandomValues : run' = AfterSwitchDraw(run, u)
    /\ UNCHANGED <<inputs, run2, store, call>>

DrawAlt ==
    /\ run.pc = "alt"
    /\ \E u \in RandomValues : run' = AfterAltDraw(run, u)
    /\ UNCHANGED <<inputs, run2, store, call>>

DrawSuccess ==
    /\ run.pc = "success"
    /\ \E u \in RandomValues : run' = AfterSuccessDraw(run, u)
    /\ UNCHANGED <<inputs, run2, store, call>>

Next ==
    \/ DrawPlanned
    \/ DrawOffset
    \/ DrawInitialMethod
    \/ DrawStay
    \/ DrawSwitch
    \/ DrawAlt
    \/ DrawSuccess

Spec == Init /\ [][Next]_vars

\* ------------------------------------------------------------------------
\* Two runs with the same seed
\* ------------------------------------------------------------------------

\* One output of a generator, read as rng.random() (u) or as rng.randint (s).
Outputs(us, ss) == [u : us, s : ss]

\* What the process could read instead of the seeded generator: the module
\* level generator of `random`, seeded from the clock.
Ambient == {[u |-> 0, s |-> 1], [u |-> 99, s |-> MaxSeconds]}

\* Variant in which the success draw of line 348 reads the ambient source.
AmbientSuccessDraw(pc, g, a) == IF pc = "success" THEN a ELSE g

\* The source of the draw made at pc: every draw of run() and of the
\* functions it calls reads `rng`, the generator line 286 seeds (lines 209,
\* 221, 234, 240, 315, 339, 348).  g is the output of that generator at this
\* position of its stream, a is what an ambient source would give.
DrawSource(pc, g, a) == g

\* One step of a run: the draw its position makes, and the code up to the
\* next draw.
Step(r, g, a) ==
    LET d == DrawSource(r.pc, g, a)
    IN  CASE r.pc = "plan"    -> AfterPlanDraw(r, d.u)
          [] r.pc = "offsets" -> AfterOffsetDraw(r, d.s)
          [] r.pc = "initial" -> AfterInitialDraw(r, d.u)
          [] r.pc = "stay"    -> AfterStayDraw(r, d.u)
          [] r.pc = "switch"  -> AfterSwitchDraw(r, d.u)
          [] r.pc = "alt"     -> AfterAltDraw(r, d.u)
          [] r.pc = "success" -> AfterSuccessDraw(r, d.u)
          [] OTHER            -> r

Ended(r) == r.pc \in {"generated", "raised"}

\* Both runs take their k-th draw: the same seed gives both the same k-th
\* output, while the ambient sources of the two processes differ.
TwoRuns ==
    /\ ~(Ended(run) /\ Ended(run2))
    /\ \E g \in Outputs(IF {run.pc, run2.pc} = {"offsets"} THEN {0} ELSE RandomValues,
                        IF "offsets" \in {run.pc, run2.pc} THEN 1..MaxSeconds ELSE {1}) :
         \E a1 \in Ambient :
           \E a2 \in Ambient \ {a1} :
             /\ run' = Step(run, g, a1)
             /\ run2' = Step(run2, g, a2)
    /\ UNCHANGED <<inputs, store, call>>

SpecTwoRuns == Init /\ [][TwoRuns]_vars

\* ------------------------------------------------------------------------
\* Two runs with the same seed on two lists of orders that differ in one
\* order: `run` reads `orders`, run2 reads the list it carries.
\* ------------------------------------------------------------------------

\* What an order of the two lists can be.
PairOrders ==
    [order_id : {101, 102}, order_date : {100, 103},
     order_status : OrderStatuses, order_total : {250, 300}]

\* The lists of two orders, in the order of their ids (line 126).
PairLists == {o \in [1..2 -> PairOrders] : \A i \in 1..2 : o[i].order_id = 100 + i}

\* The two lists differ in the date, the total or the status of order A, and
\* in nothing else; the other order has the date and the total of OrderDates
\* and OrderTotals.
DifferOnlyIn(o, o2, A) ==
    /\ o[A] # o2[A]
    /\ o[A].order_date \in OrderDates
    /\ o[A].order_total \in OrderTotals
    /\ o[A].order_status # CANCELLED_STATUS
    /\ \A i \in (1..2) \ {A} :
         /\ o[i] = o2[i]
         /\ o[i].order_date \in OrderDates
         /\ o[i].order_total \in OrderTotals

InitTwoInputs ==
    /\ config \in TwoInputConfigs
    /\ method_id_by_code \in Tables
    /\ orders \in PairLists
    /\ run = InitRun
    /\ \E o2 \in PairLists :
         /\ \E A \in 1..2 : DifferOnlyIn(orders, o2, A)
         /\ run2 = [f \in DOMAIN InitRun \cup {"orders"} |->
                       IF f = "orders" THEN o2 ELSE InitRun[f]]
    /\ store = InitStore(<<>>, 0)
    /\ call = NoCall

\* Both runs take their k-th draw, which the same seed makes the same.
TwoInputs ==
    /\ ~(Ended(run) /\ Ended(run2))
    /\ \E g \in Outputs(IF {run.pc, run2.pc} = {"offsets"} THEN {0} ELSE RandomValues,
                        IF "offsets" \in {run.pc, run2.pc} THEN 1..MaxSeconds ELSE {1}) :
         /\ run' = Step(run, g, g)
         /\ run2' = Step(run2, g, g)
    /\ UNCHANGED <<inputs, store, call>>

SpecTwoInputs == InitTwoInputs /\ [][TwoInputs]_vars

\* ------------------------------------------------------------------------
\* run() against the storage collaborator (lines 294-427): one action per
\* call that the collaborator may answer with an error, and one per row
\* buffered.  The generation of the rows (lines 306-406), which Spec details,
\* is here one step that yields a list of rows or raises ValueError.
\* ------------------------------------------------------------------------

\* What `payments` may hold before the run.
OldPayments == {<<>>, Rows(2)}

InitStoreRun ==
    /\ config = <<[code |-> "card", weight |-> 1, max_attempts |-> 1,
                   stay_with_method_prob |-> 50, success_rate |-> 100]>>
    /\ method_id_by_code = [c \in {"card", "paypal"} |-> TableIds[c]]
    /\ orders \in {o \in OrderLists : Len(o) = 1 /\ o[1].order_status # CANCELLED_STATUS}
    /\ run = InitRun
    /\ run2 = InitRun
    /\ store \in {InitStore(old, b) : old \in OldPayments, b \in 0..MaxBatchSize}
    /\ call = NoCall

generator == <<config, method_id_by_code, orders, run, run2>>

\* lines 295-299: the three fetches; each may raise mysql.connector.Error,
\* or RuntimeError on an empty table (lines 128-129, 139-140, 149-150).
Fetch ==
    /\ store.pc = "fetch"
    /\ \E a \in {"ok", "mysql", "runtime"} :
         store' = IF a = "ok"
                  THEN [Logged(store, "select") EXCEPT !.pc = "clear"]
                  ELSE Except(Logged(store, "select"), a)
    /\ UNCHANGED <<generator, call>>

\* lines 302-304: the DELETE and its commit; either may raise.
Clear ==
    /\ store.pc = "clear"
    /\ \E a \in {"ok", "delete", "commit"} :
         store' = CASE a = "ok" ->
                         [ClearAndCommit(store) EXCEPT !.pc = "generate"]
                    [] a = "delete" ->
                         Except(Logged(store, "delete"), "mysql")
                    [] a = "commit" ->
                         Except(Logged(clear_existing_payments(store), "commit"), "mysql")
    /\ UNCHANGED <<generator, call>>

\* lines 306-406 and the head of insert_payments_in_batches (lines 258-263)
Generate ==
    /\ store.pc = "generate"
    /\ \/ \E n \in 0..MaxRows : store' = StartInsert([store EXCEPT !.rows = Rows(n)])
       \/ store' = Except(store, "value")
    /\ UNCHANGED <<generator, call>>

\* lines 264-266, the threshold not reached
BufferRow ==
    /\ store.pc = "insert"
    /\ store.i < Len(store.rows)
    /\ LET buf == Append(store.buf, store.rows[store.i + 1])
       IN  /\ ~BufferFull(buf, store.batch_size)
           /\ store' = [store EXCEPT !.i = @ + 1, !.buf = buf]
    /\ UNCHANGED <<generator, call>>

\* lines 264-271, the threshold reached
FlushFull ==
    /\ store.pc = "insert"
    /\ store.i < Len(store.rows)
    /\ LET buf == Append(store.buf, store.rows[store.i + 1])
           st  == [store EXCEPT !.i = @ + 1, !.buf = buf]
       IN  /\ BufferFull(buf, store.batch_size)
           /\ \E a \in FlushAnswers(buf) :
                LET st1 == Flush(st, a)
                IN  store' = IF st1.error = "none"
                             THEN LoopTurnDone([st1 EXCEPT !.buf = <<>>])
                             ELSE st1
    /\ UNCHANGED <<generator, call>>

\* lines 273-279
FlushRest ==
    /\ store.pc = "insert"
    /\ store.i = Len(store.rows)
    /\ store.buf # <<>>
    /\ \E a \in FlushAnswers(store.buf) :
         LET st1 == Flush(store, a)
         IN  store' = IF st1.error = "none" THEN Return(st1) ELSE st1
    /\ UNCHANGED <<generator, call>>

StoreNext ==
    \/ Fetch
    \/ Clear
    \/ Generate
    \/ BufferRow
    \/ FlushFull
    \/ FlushRest

SpecStore == InitStoreRun /\ [][StoreNext]_vars

\* ------------------------------------------------------------------------
\* run() from the opening of the connection (line 291): the assignment of
\* line 292, which is a statement sent to the server, and then the `try` of
\* lines 294-427
\* ------------------------------------------------------------------------

InitConnection ==
    /\ config = <<[code |-> "card", weight |-> 1, max_attempts |-> 1,
                   stay_with_method_prob |-> 50, success_rate |-> 100]>>
    /\ method_id_by_code = [c \in {"card", "paypal"} |-> TableIds[c]]
    /\ orders \in {o \in OrderLists : Len(o) = 1 /\ o[1].order_status # CANCELLED_STATUS}
    /\ run = InitRun
    /\ run2 = InitRun
    /\ store \in {[InitStore(old, b) EXCEPT !.pc = "open"] :
                     old \in OldPayments, b \in 0..MaxBatchSize}
    /\ call = NoCall

\* conn.autocommit = False, line 292, outside the `try` of line 294: when the
\* server answers with an error, the exception leaves run() through no
\* handler and no `finally`.
SetAutocommit ==
    /\ store.pc = "open"
    /\ \E a \in {"ok", "mysql"} :
         store' = IF a = "ok"
                  THEN [Logged(store, "autocommit") EXCEPT !.pc = "fetch"]
                  ELSE [Logged(store, "autocommit") EXCEPT !.pc = "raised",
                                                           !.error = "mysql"]
    /\ UNCHANGED <<generator, call>>

ConnectionNext ==
    \/ SetAutocommit
    \/ Fetch
    \/ Clear
    \/ Generate
    \/ BufferRow
    \/ FlushFull
    \/ FlushRest

SpecConnection == InitConnection /\ [][ConnectionNext]_vars

\* ------------------------------------------------------------------------
\* run() called twice in succession (main, lines 433-434) with the same seed
\* on the same orders, order items and lookup tables.  `call` keeps the rows
\* the first run generated and the content of `payments` it left.
\* ------------------------------------------------------------------------

FirstRun(rows, table) == [fn |-> "run", done |-> TRUE, rows |-> rows, table |-> table]

\* lines 306-406 in the first run
GenerateFirst ==
    /\ call = NoCall
    /\ Generate

\* The first run has returned without an error (line 427) and run() is
\* called again: a new connection (lines 291-292) on what is committed.
RunAgain ==
    /\ call = NoCall
    /\ store.pc = "returned"
    /\ store.error = "none"
    /\ store' = InitStore(store.table, store.batch_size)
    /\ call' = FirstRun(store.rows, store.table)
    /\ UNCHANGED generator

\* lines 306-406 in the second run: rng has the same seed (line 286) and the
\* fetches give the same orders and tables, so the same rows are generated.
GenerateAgain ==
    /\ call.fn = "run"
    /\ store.pc = "generate"
    /\ store' = StartInsert([store EXCEPT !.rows = call.rows])
    /\ UNCHANGED <<generator, call>>

RunTwiceNext ==
    \/ Fetch
    \/ Clear
    \/ GenerateFirst
    \/ GenerateAgain
    \/ BufferRow
    \/ FlushFull
    \/ FlushRest
    \/ RunAgain

SpecRunTwice == InitStoreRun /\ [][RunTwiceNext]_vars

\* ------------------------------------------------------------------------
\* One call of normalize_distribution on any mapping
\* ------------------------------------------------------------------------

InitNormalize ==
    /\ config = <<[code |-> "card", weight |-> 1, max_attempts |-> 1,
                   stay_with_method_prob |-> 50, success_rate |-> 100]>>
    /\ method_id_by_code = [c \in {"card", "paypal"} |-> TableIds[c]]
    /\ orders \in {o \in OrderLists : Len(o) = 1 /\ o[1].order_status # CANCELLED_STATUS}
    /\ run = InitRun
    /\ run2 = InitRun
    /\ store = InitStore(<<>>, 0)
    /\ \E dist \in Distributions :
         call = [fn |-> "normalize_distribution", done |-> FALSE,
                 dist |-> dist, result |-> Raised("")]

\* The call: the function reads `dist` and builds a new dict (line 35).
Normalize ==
    /\ call.fn = "normalize_distribution"
    /\ ~call.done
    /\ call' = [call EXCEPT !.done = TRUE,
                            !.result = normalize_distribution(call.dist)]
    /\ UNCHANGED <<generator, store>>

SpecNormalize == InitNormalize /\ [][Normalize]_vars

\* ------------------------------------------------------------------------
\* Calls of the weighted single-key draw
\* ------------------------------------------------------------------------

InitDrawKey ==
    /\ config = <<[code |-> "card", weight |-> 1, max_attempts |-> 1,
                   stay_with_method_prob |-> 50, success_rate |-> 100]>>
    /\ method_id_by_code = [c \in {"card", "paypal"} |-> TableIds[c]]
    /\ orders \in {o \in OrderLists : Len(o) = 1 /\ o[1].order_status # CANCELLED_STATUS}
    /\ run = InitRun
    /\ run2 = InitRun
    /\ store = InitStore(<<>>, 0)
    /\ call \in {[fn |-> f, done |-> FALSE, dist |-> it, result |-> Raised("")] :
                    f \in DrawFunctions, it \in Items}

\* One call; u is the value that rng.random() gives inside rng.choices.
DrawKey ==
    /\ call.fn \in DrawFunctions
    /\ ~call.done
    /\ \E u \in RandomValues :
         call' = [call EXCEPT !.done = TRUE, !.result = DrawResult(call.fn, call.dist, u)]
    /\ UNCHANGED <<generator, store>>

SpecDrawKey == InitDrawKey /\ [][DrawKey]_vars

\* ------------------------------------------------------------------------
\* Calls of sample_unique_products_weighted
\* ------------------------------------------------------------------------

InitSample ==
    /\ config = <<[code |-> "card", weight |-> 1, max_attempts |-> 1,
                   stay_with_method_prob |-> 50, success_rate |-> 100]>>
    /\ method_id_by_code = [c \in {"card", "paypal"} |-> TableIds[c]]
    /\ orders \in {o \in OrderLists : Len(o) = 1 /\ o[1].order_status # CANCELLED_STATUS}
    /\ run = InitRun
    /\ run2 = InitRun
    /\ store = InitStore(<<>>, 0)
    /\ \E candidate_ids \in Candidates :
         \E weights_map \in WeightMaps(candidate_ids) :
           \E k \in SampleSizes :
             call = SampleCall(candidate_ids, weights_map, k)

\* lines 178-186
Enter ==
    /\ call.fn = "sample_unique_products_weighted"
    /\ call.pc = "call"
    /\ call' = EnterSample(call)
    /\ UNCHANGED <<generator, store>>

\* lines 188-205, one turn
Round ==
    /\ call.fn = "sample_unique_products_weighted"
    /\ call.pc = "round"
    /\ \E u \in RandomValues : call' = SampleRound(call, u)
    /\ UNCHANGED <<generator, store>>

SampleNext == Enter \/ Round

SpecSample == InitSample /\ [][SampleNext]_vars

\* ------------------------------------------------------------------------
\* Calls of generate_order_rows: one action per draw
\* ------------------------------------------------------------------------

InitOrderRows ==
    /\ config = <<[code |-> "card", weight |-> 1, max_attempts |-> 1,
                   stay_with_method_prob |-> 50, success_rate |-> 100]>>
    /\ method_id_by_code = [c \in {"card", "paypal"} |-> TableIds[c]]
    /\ orders \in {o \in OrderLists : Len(o) = 1 /\ o[1].order_status # CANCELLED_STATUS}
    /\ run = InitRun
    /\ run2 = InitRun
    /\ store = InitStore(<<>>, 0)
    /\ \E customer_plan \in CustomerPlans, activation_map \in ActivationMaps :
         call = [OrdersLocals(<<>>, activation_map, 0)
                    EXCEPT !.fn = "generate_order_rows", !.pc = "call",
                           !.customer_plan = customer_plan]

\* lines 306-311 and the head of the loop of line 313
CallGenerate ==
    /\ call.fn = "generate_order_rows"
    /\ call.pc = "call"
    /\ call' = EnterGenerate(call)
    /\ UNCHANGED <<generator, store>>

\* random.choices(months, ...), line 223
DrawMonth ==
    /\ call.fn = "generate_order_rows"
    /\ call.pc = "month"
    /\ \E w \in MonthWindows(call.cust_start, ORDERS_END_EXCL) : call' = AfterMonthDraw(call, w)
    /\ UNCHANGED <<generator, store>>

\* random.choices of the day, line 237
DrawDay ==
    /\ call.fn = "generate_order_rows"
    /\ call.pc = "day"
    /\ \E d \in DaysOf(call) : call' = AfterDayDraw(call, d)
    /\ UNCHANGED <<generator, store>>

\* random.choices(range(24), ...), line 242
DrawHour ==
    /\ call.fn = "generate_order_rows"
    /\ call.pc = "hour"
    /\ \E h \in 0..(HoursPerDay - 1) : call' = AfterHourDraw(call, h)
    /\ UNCHANGED <<generator, store>>

\* rng.randint(0, 59), line 243
DrawMinute ==
    /\ call.fn = "generate_order_rows"
    /\ call.pc = "minute"
    /\ \E m \in 0..(MinutesPerHour - 1) : call' = AfterMinuteDraw(call, m)
    /\ UNCHANGED <<generator, store>>

\* rng.randint(0, 59), line 244
DrawSecond ==
    /\ call.fn = "generate_order_rows"
    /\ call.pc = "second"
    /\ \E sec \in 0..(SecondsPerMinute - 1) : call' = AfterSecondDraw(call, sec)
    /\ UNCHANGED <<generator, store>>

\* rng.choices(status_choices, ...), line 331
DrawStatus ==
    /\ call.fn = "generate_order_rows"
    /\ call.pc = "status"
    /\ \E status_code \in {"delivered", "cancelled"} : call' = AfterStatusDraw(call, status_code)
    /\ UNCHANGED <<generator, store>>

OrderRowsNext ==
    \/ CallGenerate
    \/ DrawMonth
    \/ DrawDay
    \/ DrawHour
    \/ DrawMinute
    \/ DrawSecond
    \/ DrawStatus

SpecOrderRows == InitOrderRows /\ [][OrderRowsNext]_vars

\* ------------------------------------------------------------------------
\* Two runs of insert_orders.run with the same seed, customers and status
\* table, side by side.  Both make the same draws in the same order; a draw
\* from rng gives the same value in both, a draw from the module `random`
\* gives each run a value of its own.
\* ------------------------------------------------------------------------

\* MIN_TOTAL_ORDERS (line 60): none, or one order at least.
MinTotals == {0, 1}

\* The first customer is active before the window; the second becomes active
\* in the middle of a day of the window, or after the window.
TwoRunActivationMaps ==
    {a \in ActivationMaps : a[1] < ORDERS_START /\ a[2] >= ORDERS_START}

InitTwoOrderRuns ==
    /\ config = <<[code |-> "card", weight |-> 1, max_attempts |-> 1,
                   stay_with_method_prob |-> 50, success_rate |-> 100]>>
    /\ method_id_by_code = [c \in {"card", "paypal"} |-> TableIds[c]]
    /\ orders \in {o \in OrderLists : Len(o) = 1 /\ o[1].order_status # CANCELLED_STATUS}
    /\ run = InitRun
    /\ run2 = InitRun
    /\ store = InitStore(<<>>, 0)
    /\ \E activation_map \in TwoRunActivationMaps, min_total_orders \in MinTotals :
         LET l == EnterRun(SortedSeq(CustomerIds), activation_map, min_total_orders)
         IN  call = [fn |-> "insert_orders.run", first |-> l, second |-> l]

TwoOrderRuns ==
    /\ call.fn = "insert_orders.run"
    /\ ~call.first.done
    /\ call.first.pc = call.second.pc
    /\ \E v1 \in DrawValues(call.first), v2 \in DrawValues(call.second) :
         /\ call.first.pc \notin ModuleDraws => v1 = v2
         /\ call' = [call EXCEPT !.first = AfterDraw(call.first, v1),
                                 !.second = AfterDraw(call.second, v2)]
    /\ UNCHANGED <<generator, store>>

SpecTwoOrderRuns == InitTwoOrderRuns /\ [][TwoOrderRuns]_vars

\* ------------------------------------------------------------------------
\* Calls of sorted_attempt_times (insert_payments.py:223-237): one action for
\* the head of the function and one per kind of turn of its loop
\* ------------------------------------------------------------------------

\* The numbers of timestamps asked for: none, and up to one more than the
\* caller ever asks (line 313 passes 1..MAX_GLOBAL_ATTEMPTS).
AskedCounts == (-1)..(MAX_GLOBAL_ATTEMPTS + 1)

\* The call before its first statement; `last` is the value rng.randint
\* returned last, `repeated` tells whether a draw returned an offset that
\* had been chosen already.
TimesCall(base_dt, n_attempts) ==
    [fn |-> "sorted_attempt_times", done |-> FALSE, pc |-> "call",
     base_dt |-> base_dt, n_arg |-> n_attempts, n_attempts |-> n_attempts,
     chosen |-> {}, last |-> 0, repeated |-> FALSE, result |-> Raised("")]

\* Variant of lines 227-232 without the clamp of line 230.
EnterTimesUnclamped(c) ==
    IF c.n_arg <= 0
    THEN [c EXCEPT !.done = TRUE, !.pc = "done", !.result = Returned(<<>>)]
    ELSE [c EXCEPT !.pc = "loop"]

\* lines 227-232; n_attempts is 1 at least when the loop is reached
EnterTimes(c) ==
    IF c.n_arg <= 0
    THEN [c EXCEPT !.done = TRUE, !.pc = "done", !.result = Returned(<<>>)]
    ELSE [c EXCEPT !.pc = "loop", !.n_attempts = Min(c.n_arg, MaxSeconds)]

\* lines 233-237: one turn of the loop with rng.randint giving s, then the
\* test of line 233 and, when the set is full, the return.
AfterRandint(c, s) ==
    LET c1 == [c EXCEPT !.chosen = c.chosen \cup {s},
                        !.last = s,
                        !.repeated = c.repeated \/ s \in c.chosen]
    IN  IF Cardinality(c1.chosen) < c1.n_attempts
        THEN c1
        ELSE [c1 EXCEPT !.done = TRUE, !.pc = "done",
                        !.result = Returned(TimesOf(c1.base_dt, c1.chosen))]

InitTimes ==
    /\ config = <<[code |-> "card", weight |-> 1, max_attempts |-> 1,
                   stay_with_method_prob |-> 50, success_rate |-> 100]>>
    /\ method_id_by_code = [c \in {"card", "paypal"} |-> TableIds[c]]
    /\ orders \in {o \in OrderLists : Len(o) = 1 /\ o[1].order_status # CANCELLED_STATUS}
    /\ run = InitRun
    /\ run2 = InitRun
    /\ store = InitStore(<<>>, 0)
    /\ \E base_dt \in OrderDates, n_attempts \in AskedCounts :
         call = TimesCall(base_dt, n_attempts)

\* lines 227-232
CallTimes ==
    /\ call.fn = "sorted_attempt_times"
    /\ call.pc = "call"
    /\ call' = EnterTimes(call)
    /\ UNCHANGED <<generator, store>>

\* line 234, rng.randint returns an offset that is not in the set yet
DrawNewOffset ==
    /\ call.fn = "sorted_attempt_times"
    /\ call.pc = "loop"
    /\ \E s \in (1..MaxSeconds) \ call.chosen : call' = AfterRandint(call, s)
    /\ UNCHANGED <<generator, store>>

\* line 234, rng.randint returns an offset that is in the set already
DrawRepeatedOffset ==
    /\ call.fn = "sorted_attempt_times"
    /\ call.pc = "loop"
    /\ \E s \in (1..MaxSeconds) \cap call.chosen : call' = AfterRandint(call, s)
    /\ UNCHANGED <<generator, store>>

TimesNext ==
    \/ CallTimes
    \/ DrawNewOffset
    \/ DrawRepeatedOffset

\* The function runs on (the interpreter does not stop), and the generator
\* does not return offsets of the set for ever when there are others.
SpecTimes ==
    /\ InitTimes
    /\ [][TimesNext]_vars
    /\ WF_vars(CallTimes)
    /\ WF_vars(DrawNewOffset)

\* ------------------------------------------------------------------------
\* Calls of plan_orders_for_customers (insert_orders.py:263-288): one action
\* per draw
\* ------------------------------------------------------------------------

\* customer_ids: the ids of the eligible customers, distinct (the key of the
\* table) and at least one (lines 439-441).
CustomerLists ==
    UNION {{c \in [1..n -> CustomerIds] : \A i, j \in 1..n : i # j => c[i] # c[j]}
           : n \in 1..Cardinality(CustomerIds)}

\* min_total_orders: 0 (which stands for None too) up to one more than the
\* customers can be given.
MinTotalsAsked == 0..(Cardinality(CustomerIds) * MaxQuota + 1)

\* The call before its first draw: the locals of the planning, and `attempt`
\* (lines 269-271), the number of the round of quotas.
PlanCall(customer_ids, min_total_orders) ==
    LET l == OrdersLocals(customer_ids, <<>>, min_total_orders)
    IN  [f \in DOMAIN l \cup {"attempt"} |->
            CASE f = "attempt" -> 1
              [] f = "fn"      -> "plan_orders_for_customers"
              [] OTHER         -> l[f]]

\* line 178 and lines 270-288: a round that falls short of the minimum is
\* followed by the next round (line 271).
PlanAfterQuotaDraw(c, q) ==
    LET c1 == AfterQuotaDraw(c, q)
    IN  IF c1.pc = "quota" /\ c1.quotas = <<>>
        THEN [c1 EXCEPT !.attempt = @ + 1]
        ELSE c1

\* rng.shuffle(plan) and `return plan`, lines 283-286
ReturnPlan(c, perm) ==
    LET plan == [i \in DOMAIN c.customer_plan |-> c.customer_plan[perm[i]]]
    IN  [c EXCEPT !.customer_plan = plan, !.done = TRUE, !.pc = "done",
                  !.result = Returned(plan)]

InitPlan ==
    /\ config = <<[code |-> "card", weight |-> 1, max_attempts |-> 1,
                   stay_with_method_prob |-> 50, success_rate |-> 100]>>
    /\ method_id_by_code = [c \in {"card", "paypal"} |-> TableIds[c]]
    /\ orders \in {o \in OrderLists : Len(o) = 1 /\ o[1].order_status # CANCELLED_STATUS}
    /\ run = InitRun
    /\ run2 = InitRun
    /\ store = InitStore(<<>>, 0)
    /\ \E customer_ids \in CustomerLists, min_total_orders \in MinTotalsAsked :
         call = PlanCall(customer_ids, min_total_orders)

\* rng.choices(buckets, ...), line 178, for the next customer
DrawQuota ==
    /\ call.fn = "plan_orders_for_customers"
    /\ call.pc = "quota"
    /\ call.attempt <= MaxRounds
    /\ \E q \in Buckets : call' = PlanAfterQuotaDraw(call, q)
    /\ UNCHANGED <<generator, store>>

\* rng.shuffle(plan), line 283
ShufflePlan ==
    /\ call.fn = "plan_orders_for_customers"
    /\ call.pc = "shuffle"
    /\ \E perm \in ShuffleOrders(Len(call.customer_plan)) : call' = ReturnPlan(call, perm)
    /\ UNCHANGED <<generator, store>>

PlanNext == DrawQuota \/ ShufflePlan

SpecPlan == InitPlan /\ [][PlanNext]_vars

\* ------------------------------------------------------------------------
\* Vocabulary of the properties
\* ------------------------------------------------------------------------

\* The orders whose simulation has ended (their turn of the loop is over).
CompletedOrders == 1..(run.oi - 1)

\* The rows emitted for one order, in the order of emission.
RowsOf(order_id) == SelectSeq(run.rows, LAMBDA x : x.order_id = order_id)

IsPaid(row) == row.payment_status_id = status_id_by_code.paid
IsFailed(row) == row.payment_status_id = status_id_by_code.failed

\* The turn of the loop of some order has just ended: the locals still hold
\* what that order left in them.
JustCompleted == run.oi > 1 /\ run.pc \in {"plan", "generated"}
LastOrder == orders[run.oi - 1]

\* The order that has just ended was resolved by force: its last row is the
\* forced-resolution row, and run.attempt_no counts it.
JustForced ==
    /\ JustCompleted
    /\ ~run.paid
    /\ LastOrder.order_status # CANCELLED_STATUS

ForcedRow == run.rows[Len(run.rows)]

\* The configurations the data model of the specification allows: every
\* method may be attempted at least once.
EveryMethodAttemptable == \A i \in DOMAIN config : config[i].max_attempts >= 1

\* Every configured method has an id in the method table: no attempt is
\* skipped.
EveryMethodMapped == Range(Codes) \subseteq DOMAIN method_id_by_code

\* Every configured method has a positive weight: no weighted draw among a
\* non-empty list of methods raises.
EveryWeightPositive == \A i \in DOMAIN config : config[i].weight > 0

\* The sum of the per-order counters of the methods.
RECURSIVE SumCounts(_, _)
SumCounts(method_counts, S) ==
    IF S = {} THEN 0
    ELSE LET m == CHOOSE x \in S : TRUE
         IN  method_counts[m] + SumCounts(method_counts, S \ {m})

\* The run is at line 348 with a method that has no id in the method table:
\* the attempt it is making is skipped at lines 350-353.
AtSkippedAttempt ==
    /\ run.pc = "success"
    /\ run.method \notin DOMAIN method_id_by_code


\* No method other than the current one is under its cap.
NoAlternative ==
    Without(available_methods_by_cap(run.method_counts), run.current_method) = <<>>

\* The configuration holds one method, which has an id in the method table,
\* with the given cap and success rate (in hundredths).
SingleMappedMethod(max_attempts, success_rate) ==
    /\ Len(config) = 1
    /\ config[1].code \in DOMAIN method_id_by_code
    /\ config[1].max_attempts = max_attempts
    /\ config[1].success_rate = success_rate

\* The run has returned without any error, the rows having been handed to
\* insert_payments_in_batches.
ReturnedWithoutError ==
    /\ store.pc = "returned"
    /\ store.error = "none"

\* The sizes of the chunks handed to storage, in flush order.
ChunkSizes == [c \in DOMAIN store.handed |-> Len(store.handed[c])]

\* The collaborator rejected a batch: the storage error came from a flush,
\* the last chunk handed to storage.
BatchRejected ==
    /\ store.error = "mysql"
    /\ store.handed # <<>>

\* The number of calls of one kind made on the connection.
CallCount(name) == Len(SelectSeq(store.log, LAMBDA c : c = name))

\* ------------------------------------------------------------------------
\* Properties
\* ------------------------------------------------------------------------

\* C1: the rows of every non-cancelled order whose simulation has ended hold
\* exactly one paid row, and it is the last row of the order.
C1_OnePaidRowLast ==
    \A i \in CompletedOrders :
        orders[i].order_status # CANCELLED_STATUS =>
            LET rs == RowsOf(orders[i].order_id)
            IN  /\ Len(rs) >= 1
                /\ IsPaid(rs[Len(rs)])
                /\ \A j \in 1..(Len(rs) - 1) : ~IsPaid(rs[j])

\* A non-cancelled order ended with failed rows followed by its paid row.
C1_Witness ==
    \E i \in CompletedOrders :
        /\ orders[i].order_status # CANCELLED_STATUS
        /\ LET rs == RowsOf(orders[i].order_id)
           IN  Len(rs) >= 3 /\ IsFailed(rs[1]) /\ IsPaid(rs[Len(rs)])

\* C2 as stated: every row of a cancelled order whose simulation has ended
\* is a failed row.
C2_CancelledAllFailed ==
    \A i \in CompletedOrders :
        orders[i].order_status = CANCELLED_STATUS =>
            \A j \in DOMAIN RowsOf(orders[i].order_id) :
                IsFailed(RowsOf(orders[i].order_id)[j])

\* C2 amended: a cancelled order gets no forced-resolution row.  Its rows
\* are those of its simulated attempts: all but the last are failed, and the
\* last is paid exactly when a simulated attempt succeeded.
C2_CancelledNeverForced ==
    /\ \A i \in CompletedOrders :
          orders[i].order_status = CANCELLED_STATUS =>
              LET rs == RowsOf(orders[i].order_id)
              IN  \A j \in 1..(Len(rs) - 1) : IsFailed(rs[j])
    /\ (JustCompleted /\ LastOrder.order_status = CANCELLED_STATUS) =>
          LET rs == RowsOf(LastOrder.order_id)
          IN  /\ Len(rs) <= run.attempt_no
              /\ run.paid <=> (Len(rs) >= 1 /\ IsPaid(rs[Len(rs)]))
              /\ ~run.paid => \A j \in DOMAIN rs : IsFailed(rs[j])

\* A cancelled order ended with a failed row and then the paid row of an
\* attempt that succeeded.
C2_Witness ==
    /\ JustCompleted
    /\ LastOrder.order_status = CANCELLED_STATUS
    /\ run.paid
    /\ LET rs == RowsOf(LastOrder.order_id)
       IN  Len(rs) >= 2 /\ IsFailed(rs[1]) /\ IsPaid(rs[Len(rs)])

\* C3 as stated: the attempt_no values of the rows of an order are 1..m in
\* the order of emission, m being the number of its rows.
C3_AttemptNumbersGapless ==
    \A i \in CompletedOrders :
        LET rs == RowsOf(orders[i].order_id)
        IN  \A j \in DOMAIN rs : rs[j].attempt_no = j

\* C4 as stated: for every order and every configured method, the rows of
\* the order that carry the id of the method are at most
\* min(max_attempts, MAX_GLOBAL_ATTEMPTS) (every method being allowed one
\* attempt at least).
C4_RowsPerMethodWithinCap ==
    EveryMethodAttemptable =>
    \A i \in 1..Len(orders) :
        \A m \in Range(Codes) \cap DOMAIN method_id_by_code :
            Len(SelectSeq(RowsOf(orders[i].order_id),
                          LAMBDA x : x.payment_method_id = method_id_by_code[m]))
                <= MethodCap(m)

\* C5 as stated: an order never has more than MAX_GLOBAL_ATTEMPTS rows.
C5_RowsWithinGlobalCap ==
    \A i \in 1..Len(orders) :
        Len(RowsOf(orders[i].order_id)) <= MAX_GLOBAL_ATTEMPTS

C7_DatesStrictlyIncrease ==
    /\ \A i \in 1..Len(orders) :
          LET rs == RowsOf(orders[i].order_id)
          IN  \A j, k \in DOMAIN rs :
                  j < k => /\ rs[j].payment_date < rs[k].payment_date
                           /\ rs[j].attempt_no < rs[k].attempt_no
    /\ JustForced =>
          \A j \in 1..(Len(run.rows) - 1) :
              run.rows[j].order_id = ForcedRow.order_id =>
                  run.rows[j].payment_date < ForcedRow.payment_date

\* An order was resolved by force after at least two emitted attempts.
C7_Witness ==
    /\ JustForced
    /\ Len(RowsOf(LastOrder.order_id)) >= 3

\* C8: a paid row carries the total of its order, a failed row carries zero.
C8_AmountMatchesStatus ==
    \A j \in DOMAIN run.rows :
        LET row == run.rows[j]
        IN  \A i \in DOMAIN orders :
                orders[i].order_id = row.order_id =>
                    /\ IsPaid(row) => row.amount_paid = orders[i].order_total
                    /\ IsFailed(row) => row.amount_paid = 0

\* The rows hold a failed row and a paid row.
C8_Witness ==
    /\ \E j \in DOMAIN run.rows : IsFailed(run.rows[j]) /\ run.rows[j].amount_paid = 0
    /\ \E j \in DOMAIN run.rows : IsPaid(run.rows[j]) /\ run.rows[j].amount_paid > 0

\* C9 as stated: the forced-resolution row is dated one second after the
\* timestamp of the last attempt that was made (the attempts take the planned
\* timestamps in order, so the last attempt made took the timestamp whose
\* index is the number of attempts made), or one second after the order date
\* when no attempt was made.  Stated for the configurations in which every
\* method may be attempted and every attempt is emitted.
C9_ForcedOneSecondAfterLastAttempt ==
    (EveryMethodAttemptable /\ EveryMethodMapped /\ JustForced) =>
        LET made == run.attempt_no - 1
        IN  ForcedRow.payment_date =
                IF made > 0 THEN run.attempt_times[made] + 1
                            ELSE LastOrder.order_date + 1

\* The ids of the configured methods that have one.
ConfiguredIds == {method_id_by_code[m] : m \in Range(Codes) \cap DOMAIN method_id_by_code}

\* C10 as stated: the forced-resolution row carries the id of the method of
\* the last simulated attempt when that method has an id, and otherwise the
\* id of some configured method.
C10_ForcedMethodConfigured ==
    (JustForced /\ run.attempt_no - 1 >= 1) =>
        IF run.method \in DOMAIN method_id_by_code
        THEN ForcedRow.payment_method_id = method_id_by_code[run.method]
        ELSE ForcedRow.payment_method_id \in ConfiguredIds

\* C10 amended: the forced-resolution row carries the id of the method of the
\* last simulated attempt when that method has an id (the row of that attempt
\* is then the row before it, with the same id), and otherwise the lowest id
\* of the method table, configured or not.
C10_ForcedMethodLastOrFirstOfTable ==
    (JustForced /\ run.attempt_no - 1 >= 1) =>
        IF run.method \in DOMAIN method_id_by_code
        THEN /\ ForcedRow.payment_method_id = method_id_by_code[run.method]
             /\ Len(run.rows) >= 2
             /\ LET prev == run.rows[Len(run.rows) - 1]
                IN  /\ prev.order_id = ForcedRow.order_id
                    /\ prev.attempt_no = run.attempt_no - 1
                    /\ prev.payment_method_id = ForcedRow.payment_method_id
        ELSE /\ ForcedRow.payment_method_id \in Range(method_id_by_code)
             /\ \A id \in Range(method_id_by_code) : ForcedRow.payment_method_id <= id

\* An order was resolved by force after an attempt with a method that has no
\* id, and the row carries the id of a method the configuration does not name.
C10_Witness ==
    /\ JustForced
    /\ run.attempt_no - 1 >= 1
    /\ run.method \notin DOMAIN method_id_by_code
    /\ ForcedRow.payment_method_id = TableIds.cash
    /\ ForcedRow.payment_method_id \notin ConfiguredIds

C12_SwitchWithoutAlternativeEndsLoop ==
    [][(run.pc = "stay" /\ NoAlternative /\ run' = AfterStay(run, FALSE)) =>
          run'.oi = run.oi + 1
      ]_vars

\* C12 amended: on a decision to switch with no other method under its cap
\* the current method is kept, and, being under its cap, is attempted again
\* on the next timestamp; the attempts of the order end early only when the
\* current method has reached its cap as well.
C12_SwitchWithoutAlternativeKeepsCurrent ==
    [][/\ (run.pc = "stay" /\ NoAlternative /\ run' = AfterStay(run, FALSE)) =>
            /\ run.method_counts[run.current_method] < MethodCap(run.current_method)
            /\ run'.oi = run.oi
            /\ run'.pc = "success"
            /\ run'.method = run.current_method
            /\ run'.current_method = run.current_method
            /\ run'.attempt_no = run.attempt_no + 1
            /\ run'.method_counts[run.current_method] =
                   run.method_counts[run.current_method] + 1
       /\ (/\ run.pc = "success"
           /\ run.method_counts[run.current_method] >= MethodCap(run.current_method)
           /\ NoAlternative) =>
            run'.oi = run.oi + 1
      ]_vars

\* With one configured method, never an alternative, an order is at its
\* third attempt with that method: two draws of stay-or-switch kept it.
C12_Witness ==
    /\ Len(config) = 1
    /\ run.pc = "success"
    /\ run.attempt_no = 3
    /\ run.method = run.current_method
    /\ run.method_counts[run.method] = 3
    /\ Len(RowsOf(orders[run.oi].order_id)) = 2

\* C13: with a single configured method that has an id, success_rate 1.0 and
\* max_attempts 1, every non-cancelled order whose simulation has ended has
\* exactly one row: attempt_no 1, the order total, the id of the method,
\* status paid; and no order ever has more than that row.
C13_SureMethodOnePaidRow ==
    SingleMappedMethod(1, 100) =>
        /\ \A i \in CompletedOrders :
              orders[i].order_status # CANCELLED_STATUS =>
                  LET rs == RowsOf(orders[i].order_id)
                  IN  /\ Len(rs) = 1
                      /\ rs[1].attempt_no = 1
                      /\ rs[1].amount_paid = orders[i].order_total
                      /\ rs[1].payment_method_id = method_id_by_code[config[1].code]
                      /\ rs[1].payment_status_id = status_id_by_code.paid
        /\ \A i \in 1..Len(orders) : Len(RowsOf(orders[i].order_id)) <= 1

\* A non-cancelled order for which several attempts were planned ended with
\* its single paid row, under that configuration.
C13_Witness ==
    /\ SingleMappedMethod(1, 100)
    /\ JustCompleted
    /\ LastOrder.order_status # CANCELLED_STATUS
    /\ run.planned_attempts = MAX_GLOBAL_ATTEMPTS
    /\ Len(RowsOf(LastOrder.order_id)) = 1
    /\ IsPaid(RowsOf(LastOrder.order_id)[1])

\* C14: with a single configured method that has an id, success_rate 0.0 and
\* max_attempts 1, every cancelled order whose simulation has ended has
\* exactly one row, a failed one with attempt_no 1, whatever the number of
\* attempts planned; and one attempt was made.
C14_HopelessMethodOneFailedRow ==
    SingleMappedMethod(1, 0) =>
        /\ \A i \in CompletedOrders :
              orders[i].order_status = CANCELLED_STATUS =>
                  LET rs == RowsOf(orders[i].order_id)
                  IN  /\ Len(rs) = 1
                      /\ IsFailed(rs[1])
                      /\ rs[1].attempt_no = 1
                      /\ rs[1].amount_paid = 0
        /\ (JustCompleted /\ LastOrder.order_status = CANCELLED_STATUS) =>
              /\ run.attempt_no = 1
              /\ run.planned_attempts \in 1..MAX_GLOBAL_ATTEMPTS

\* A cancelled order for which two attempts or more were planned ended with
\* its single failed row: the second timestamp found the method at its cap.
C14_Witness ==
    /\ SingleMappedMethod(1, 0)
    /\ JustCompleted
    /\ LastOrder.order_status = CANCELLED_STATUS
    /\ run.planned_attempts >= 2
    /\ Len(run.attempt_times) >= 2
    /\ Len(RowsOf(LastOrder.order_id)) = 1
    /\ IsFailed(RowsOf(LastOrder.order_id)[1])

\* C15: for a flush threshold of 1 or more and while no flush fails, the
\* chunks handed to storage, concatenated in flush order and followed by the
\* buffer, are the rows taken so far by the loop, in their order, and no chunk
\* is longer than the threshold; when the run returns, the chunks concatenate to the
\* whole list of rows, they are the lists `batched` yields for the same rows
\* and size, storage holds the rows in that order, and 7 rows under a
\* threshold of 3 were flushed in chunks of 3, 3 and 1 rows (checked under
\* SpecStore).
C15_ChunksConcatenateToRows ==
    (store.error = "none" /\ store.batch_size >= 1) =>
        /\ \A c \in DOMAIN store.handed : Len(store.handed[c]) <= store.batch_size
        /\ store.pc = "insert" =>
              /\ Flatten(store.handed) \o store.buf = SubSeq(store.rows, 1, store.i)
              /\ Len(store.buf) < store.batch_size
        /\ ReturnedWithoutError =>
              /\ Flatten(store.handed) = store.rows
              /\ store.handed = batched(store.rows, store.batch_size)
              /\ store.table = store.rows
              /\ (store.batch_size = 3 /\ Len(store.rows) = 7) =>
                     ChunkSizes = <<3, 3, 1>>

\* Seven rows went to storage in three chunks under a threshold of 3.
C15_Witness ==
    /\ ReturnedWithoutError
    /\ store.batch_size = 3
    /\ Len(store.rows) = 7
    /\ ChunkSizes = <<3, 3, 1>>
    /\ store.table = Rows(7)

\* C16: when the collaborator rejects the j-th batch, the run is over and
\* storage holds exactly the rows of the batches 1..j-1, in their order, and
\* no row of batch j; batch j was handed to storage once and nothing was
\* handed after it (the chunks handed are successive slices of the rows, and
\* executemany was called j times); while the batches are being inserted,
\* storage holds exactly the committed batches (checked under SpecStore).
C16_RejectedBatchLeavesCommittedBatches ==
    /\ store.pc = "insert" =>
          store.table = Flatten(SubSeq(store.handed, 1, store.batches))
    /\ BatchRejected =>
          LET j == Len(store.handed)
          IN  /\ store.pc = "returned"
              /\ store.batches = j - 1
              /\ store.table = Flatten(SubSeq(store.handed, 1, j - 1))
              /\ store.tx = store.table
              /\ \A k \in DOMAIN store.handed[j] :
                     store.handed[j][k] \notin Range(store.table)
              /\ Flatten(store.handed) =
                     SubSeq(store.rows, 1, Len(Flatten(store.handed)))
              /\ CallCount("executemany") = j
              /\ store.log[Len(store.log) - 1] = "rollback"

\* The third batch was rejected after two batches of two rows were committed:
\* storage holds those four rows.
C16_Witness ==
    /\ BatchRejected
    /\ Len(store.handed) = 3
    /\ store.batch_size = 2
    /\ Len(store.handed[3]) = 2
    /\ store.table = Rows(4)
    /\ Len(store.rows) >= 7

\* C17: once the collaborator has raised a storage error, at a fetch, at the
\* clearing or its commit, or at a batch insert or its commit, run() has
\* rolled the open transaction back (one rollback, followed by the close of
\* the connection, nothing left uncommitted) and has returned to its caller;
\* a run that ends by raising never does so with a storage error (checked
\* under SpecStore).
C17_StorageErrorRollsBackAndReturns ==
    /\ store.error = "mysql" =>
          /\ store.pc = "returned"
          /\ CallCount("rollback") = 1
          /\ Len(store.log) >= 2
          /\ store.log[Len(store.log) - 1] = "rollback"
          /\ store.log[Len(store.log)] = "close"
          /\ store.tx = store.table
          /\ store.result = <<>>
    /\ store.pc = "raised" => store.error \notin {"mysql", "none"}

\* The commit of the second batch raised, after the first batch was
\* committed: the run rolled back and returned.
C17_Witness ==
    /\ store.error = "mysql"
    /\ store.pc = "returned"
    /\ Len(store.handed) = 2
    /\ store.batches = 1
    /\ CallCount("commit") = 3
    /\ CallCount("rollback") = 1

\* The method-weight table is invalid: empty, with a weight that is zero or
\* negative, or with a sum that is not positive.
InvalidMethodWeights ==
    \/ config = <<>>
    \/ \E i \in DOMAIN config : config[i].weight <= 0
    \/ SumSeq(build_method_weights) <= 0

\* C18 as stated: with an invalid method-weight table the run fails before
\* the simulation of the first order begins: no draw of the loop over the
\* orders is made, and no row is built.
C18_InvalidWeightsFailBeforeFirstOrder ==
    InvalidMethodWeights =>
        /\ run.pc = "plan"
        /\ run.oi = 1
        /\ run.planned_attempts = 0
        /\ run.rows = <<>>

\* The call of normalize_distribution has been made.
Normalized == call.fn = "normalize_distribution" /\ call.done

\* The mapping given to the call is {A: a, B: b}.
DistIs(a, b) ==
    /\ DOMAIN call.dist = {"A", "B"}
    /\ call.dist["A"] = a
    /\ call.dist["B"] = b

\* The sum of a mapping of fractions, as a fraction.
RECURSIVE FractionSum(_)
FractionSum(value) ==
    IF DOMAIN value = {} THEN [num |-> 0, den |-> 1]
    ELSE LET k    == CHOOSE x \in DOMAIN value : TRUE
             rest == FractionSum([x \in DOMAIN value \ {k} |-> value[x]])
         IN  [num |-> value[k].num * rest.den + rest.num * value[k].den,
              den |-> value[k].den * rest.den]

\* C19: normalize_distribution raises, and returns nothing, exactly when the
\* mapping is empty, or holds a negative weight, or has a sum of weights that
\* is not positive; it raises on {A: 0, B: 0} and on {A: -1, B: 2}, and
\* returns on every other mapping (checked under SpecNormalize).
C19_NormalizeFailsExactlyOnInvalid ==
    Normalized =>
        /\ call.result.kind = "raise" <=>
              \/ DOMAIN call.dist = {}
              \/ \E k \in DOMAIN call.dist : call.dist[k] < 0
              \/ Total(call.dist) <= 0
        /\ call.result.kind \in {"raise", "return"}
        /\ call.result.kind = "raise" => DOMAIN call.result.value = {}
        /\ DistIs(0, 0) => call.result.kind = "raise"
        /\ DistIs(-1, 2) => call.result.kind = "raise"
        /\ DistIs(1, 3) => call.result.kind = "return"

\* The call on {A: -1, B: 2}, whose sum is positive, has raised.
C19_Witness ==
    /\ Normalized
    /\ DistIs(-1, 2)
    /\ Total(call.dist) > 0
    /\ call.result.kind = "raise"

DrewKey == call.fn \in DrawFunctions /\ call.done

\* The inputs that normalize_distribution refuses (lines 28-34): the empty
\* mapping, a negative weight, a sum of weights that is not positive.
InvalidItems(items) ==
    \/ Len(items) = 0
    \/ \E i \in DOMAIN items : items[i].weight < 0
    \/ SumSeq(ValsOf(items)) <= 0

\* C21: a call of the weighted single-key draw on an empty mapping, on a
\* mapping with a negative weight (whatever the sum) or on a mapping whose
\* weights sum to zero or less raises ValueError; it never returns a key.
C21_DrawFailsOnInvalidWeights ==
    (DrewKey /\ InvalidItems(call.dist)) => call.result.kind = "raise"

\* ------------------------------------------------------------------------
\* C22, C23
\* ------------------------------------------------------------------------

Sampled == call.fn = "sample_unique_products_weighted" /\ call.done

\* C22: a list returned by sample_unique_products_weighted has no duplicate
\* element, holds only candidates, is no longer than min(k, number of
\* candidates) and is empty when k <= 0 or there is no candidate; no step of
\* the call changes the caller's candidate sequence.
C22_SampleDistinctAndBounded ==
    /\ [](Sampled /\ call.result.kind = "return" =>
            LET list == call.result.value
                n    == Len(call.candidate_ids)
            IN  /\ \A i, j \in DOMAIN list : i # j => list[i] # list[j]
                /\ Range(list) \subseteq Range(call.candidate_ids)
                /\ Len(list) <= Max(0, Min(call.k_arg, n))
                /\ (call.k_arg <= 0 \/ n = 0) => Len(list) = 0)
    /\ [][call'.candidate_ids = call.candidate_ids]_vars

\* Three products are asked of two positive-weight candidates: both come back.
C22_Witness ==
    /\ Sampled
    /\ call.result.kind = "return"
    /\ call.k_arg = 3
    /\ Len(call.candidate_ids) = 2
    /\ Len(call.result.value) = 2

\* C23: when the call has ended with fewer than k elements drawn and the
\* weights of the candidates left in the pool sum to zero, it has returned
\* the elements drawn so far, none of them of weight zero, and has not
\* raised; this holds when all the weights are zero from the start too.
C23_ZeroSumStopsWithoutError ==
    (/\ Sampled
     /\ Len(call.chosen) < call.k
     /\ Len(call.weights) > 0
     /\ SumSeq(call.weights) = 0)
        => /\ call.result = Returned(call.chosen)
           /\ \A i \in DOMAIN call.chosen :
                 WeightOf(call.weights_map, call.chosen[i]) # 0

\* ------------------------------------------------------------------------
\* C24
\* ------------------------------------------------------------------------

SecondRunReturned == call.fn = "run" /\ ReturnedWithoutError

\* C24: when the generator has run twice in succession with the same seed on
\* the same orders and both runs have returned without an error, `payments`
\* holds what it held after the first run, the generated rows once each.
C24_SecondRunLeavesSameRows ==
    SecondRunReturned =>
        /\ store.table = call.table
        /\ store.table = store.rows

\* Both runs went through with three rows: the second one deleted the three
\* rows of the first and inserted its own.
C24_Witness ==
    /\ SecondRunReturned
    /\ call.table = Rows(3)
    /\ store.table = Rows(3)
    /\ "delete" \in Range(store.log)
    /\ store.batches > 0

\* ------------------------------------------------------------------------
\* C25
\* ------------------------------------------------------------------------

\* The order a row was emitted for.
OrderOf(row) == CHOOSE o \in Range(orders) : o.order_id = row.order_id

\* C25: every row emitted, the forced-resolution row included, has a
\* payment_date strictly after the date of its order and strictly before
\* that date plus PAYMENT_WINDOW_SECONDS.
C25_PaymentDateInsideWindow ==
    \A i \in DOMAIN run.rows :
        LET row == run.rows[i]
        IN  /\ OrderOf(row).order_date < row.payment_date
            /\ row.payment_date < OrderOf(row).order_date + PAYMENT_WINDOW_SECONDS

\* An order was resolved by force in the last second the window allows, after
\* an attempt at the largest offset.
C25_Witness ==
    /\ JustForced
    /\ Len(run.rows) >= 2
    /\ ForcedRow.payment_date = LastOrder.order_date + PAYMENT_WINDOW_SECONDS - 1
    /\ run.rows[Len(run.rows) - 1].payment_date =
           LastOrder.order_date + PAYMENT_WINDOW_SECONDS - 2

\* ------------------------------------------------------------------------
\* C26, C27
\* ------------------------------------------------------------------------

OrderRowsReturned ==
    /\ call.fn = "generate_order_rows"
    /\ call.done
    /\ call.result.kind = "return"

\* C26: every row that generate_order_rows returns for a customer has an
\* order_date that is neither before the later of the start of the window
\* and the activation of the customer, nor at or after the end of the window.
C26_OrderDateFromActivationToEnd ==
    OrderRowsReturned =>
        \A i \in DOMAIN call.result.value :
            LET row == call.result.value[i]
            IN  /\ Max(ORDERS_START, call.activation_map[row.customer_id])
                       <= row.order_date
                /\ row.order_date < ORDERS_END_EXCL

\* C27: two runs of the order generator with the same seed, the same
\* customers and the same status table return the same sequence of rows.
C27_SameSeedSameOrderRows ==
    (/\ call.fn = "insert_orders.run"
     /\ call.first.done
     /\ call.second.done)
        => call.first.result = call.second.result

\* ------------------------------------------------------------------------
\* C28
\* ------------------------------------------------------------------------

\* The counters and the attempt number a step starts from: line 316 and line
\* 319 reset them when the initial method of an order is drawn.
PriorCounts ==
    IF run.pc = "initial" THEN [m \in Range(Codes) |-> 0] ELSE run.method_counts
PriorAttemptNo == IF run.pc = "initial" THEN 0 ELSE run.attempt_no

\* C28: every per-method counter is at most min(max_attempts of the method,
\* MAX_GLOBAL_ATTEMPTS) in every state; within an order a step leaves a
\* counter as it is or adds 1 to it, it adds 1 only to the counter of the
\* method of an attempt it makes, which was under its cap, and every attempt
\* made adds 1 to the counter of its method and to attempt_no.
C28_CountersGrowByOneUnderCap ==
    /\ [](\A m \in Range(Codes) : run.method_counts[m] <= MethodCap(m))
    /\ [][/\ \A m \in Range(Codes) :
               /\ run'.method_counts[m] \in {PriorCounts[m], PriorCounts[m] + 1}
               /\ run'.method_counts[m] = PriorCounts[m] + 1 =>
                     /\ PriorCounts[m] < MethodCap(m)
                     /\ run'.pc = "success"
                     /\ run'.method = m
          /\ run'.pc = "success" =>
               /\ run'.method_counts[run'.method] = PriorCounts[run'.method] + 1
               /\ run'.attempt_no = PriorAttemptNo + 1]_vars

\* One method has been attempted up to its cap, and an attempt is being made
\* with another one.
C28_Witness ==
    /\ run.pc = "success"
    /\ \E m \in Range(Codes) :
         /\ m # run.method
         /\ MethodCap(m) >= 1
         /\ run.method_counts[m] = MethodCap(m)
         /\ run.method_counts[run.method] >= 1

\* ------------------------------------------------------------------------
\* C29
\* ------------------------------------------------------------------------

CurrentAtCap == run.method_counts[run.current_method] >= MethodCap(run.current_method)

\* C29: after the first attempt of an order, (a) when the current method has
\* reached its cap no stay coin is drawn and no attempt follows without a
\* switch draw, (b) when it is under its cap and the stay draw succeeds the
\* next attempt is made with it, and (c) the method a switch draw chooses is
\* not the current one and is under its own cap when it is chosen; the
\* attempt that follows is made with it.
C29_StayAndSwitchRules ==
    /\ [](run.pc = "stay" => ~CurrentAtCap)
    /\ [][/\ (run.pc = "success" /\ CurrentAtCap) =>
                 run'.pc \notin {"success", "stay"}
          /\ (run.pc = "stay" /\ run' = AfterStay(run, TRUE)) =>
                 /\ run'.pc = "success"
                 /\ run'.method = run.current_method
                 /\ run'.current_method = run.current_method
                 /\ run'.attempt_no = run.attempt_no + 1
          /\ run.pc = "switch" =>
                 /\ run'.pc = "success"
                 /\ run'.method # run.current_method
                 /\ run'.current_method = run'.method
                 /\ run.method_counts[run'.method] < MethodCap(run'.method)
                 /\ run'.attempt_no = run.attempt_no + 1]_vars

\* The last row is that of an attempt with a method that is at its cap, and
\* the attempt in progress is made with another method.
C29_Witness ==
    /\ run.pc = "success"
    /\ run.attempt_no >= 2
    /\ run.current_method = run.method
    /\ Len(run.rows) >= 1
    /\ \E m \in (Range(Codes) \cap DOMAIN method_id_by_code) \ {run.method} :
         /\ run.rows[Len(run.rows)].payment_method_id = method_id_by_code[m]
         /\ run.rows[Len(run.rows)].order_id = orders[run.oi].order_id
         /\ run.method_counts[m] >= MethodCap(m)

\* ------------------------------------------------------------------------
\* C30
\* ------------------------------------------------------------------------

\* The rows of a list emitted for one order.
RowsFor(rows, order_id) == SelectSeq(rows, LAMBDA x : x.order_id = order_id)

\* run2 reads a list of its own.
TwoLists == "orders" \in DOMAIN run2

\* C30: of two runs with the same seed on two lists of orders of the same
\* length that differ in the date, the total or the status of one order
\* only, both are at the same draw of the same order in every state and have
\* emitted the same rows for every order that is the same in both lists; and
\* the draw of the initial method of an order starts it from counters at
\* zero, attempt number zero and the paid flag down, whatever the order
\* before it left.
C30_OtherOrdersUnaffected ==
    /\ [](TwoLists =>
            /\ run.pc = run2.pc
            /\ run.oi = run2.oi
            /\ \A i \in DOMAIN orders :
                  orders[i] = run2.orders[i] =>
                      RowsFor(run.rows, orders[i].order_id)
                          = RowsFor(run2.rows, orders[i].order_id))
    /\ [][(TwoLists /\ run.pc = "initial") =>
              /\ SumCounts(run'.method_counts, Range(Codes)) <= 1
              /\ run'.pc = "success" =>
                    /\ run'.attempt_no = 1
                    /\ run'.method_counts[run'.method] = 1
                    /\ run'.current_method = run'.method
                    /\ ~run'.paid
              /\ run'.pc \in {"plan", "generated"} =>
                    /\ run'.attempt_no <= 1
                    /\ ~run'.paid]_vars

\* The first order is cancelled in one list and not in the other, it ends
\* unpaid after two attempts and gets a forced row in one run only; the
\* second order has the same two rows or more in both runs.
C30_Witness ==
    /\ TwoLists
    /\ Ended(run)
    /\ Ended(run2)
    /\ orders[1].order_status # run2.orders[1].order_status
    /\ orders[2] = run2.orders[2]
    /\ Len(RowsFor(run.rows, 101)) # Len(RowsFor(run2.rows, 101))
    /\ Len(RowsFor(run.rows, 101)) >= 2
    /\ Len(RowsFor(run.rows, 102)) >= 2
    /\ RowsFor(run.rows, 102) = RowsFor(run2.rows, 102)


\* ------------------------------------------------------------------------
\* C31
\* ------------------------------------------------------------------------

\* The forced-resolution row of the order in progress, from what the locals
\* hold before the step that ends the order.
ForcedRowFrom(r) ==
    PaidRow(orders[r.oi], r.attempt_no + 1,
            ForcedTime(r.attempt_times, orders[r.oi].order_date),
            ForcedMethodId(r.current_method))

\* C31: with every method allowed one attempt at least, the draws of an order
\* follow one another in this order: the planned-count draw, the offset
\* draws (as many as it takes to hold the planned number of distinct
\* offsets), the initial-method draw, the success draw of attempt 1; then for
\* each later attempt a stay coin only when the current method is under its
\* cap, a switch draw only when a switch is made (the coin fell on switch, or
\* the method is at its cap) and another method is under its cap, and one
\* success draw for every attempt counted, skipped attempts included; no
\* other draw is made between two of these, and the forced-resolution row is
\* built from what the locals held before the last draw of the order, whose
\* successor is the planned-count draw of the next order.
C31_DrawsInFixedOrder ==
    [][EveryMethodAttemptable =>
          /\ run.pc # "alt" /\ run'.pc # "alt"
          /\ run'.pc = "raised" => ~EveryWeightPositive
          /\ run.pc = "plan" =>
                /\ run'.pc = "offsets"
                /\ run'.planned_attempts \in 1..MAX_GLOBAL_ATTEMPTS
          /\ run.pc = "offsets" =>
                /\ run'.pc \in {"offsets", "initial", "raised"}
                /\ run'.pc = "offsets" <=> Cardinality(run'.chosen) < run.n_attempts
          /\ run.pc = "initial" =>
                /\ run'.pc = "success"
                /\ run'.attempt_no = 1
          /\ run.pc = "success" =>
                /\ run'.pc \in {"stay", "switch", "plan", "generated", "raised"}
                /\ run'.pc = "stay" => ~CurrentAtCap /\ run'.ti = run.ti + 1
                /\ run'.pc = "switch" => CurrentAtCap /\ ~NoAlternative
          /\ run.pc = "stay" =>
                /\ run'.pc \in {"success", "switch", "raised"}
                /\ run'.pc = "switch" => ~NoAlternative /\ run' # AfterStay(run, TRUE)
                /\ run' = AfterStay(run, TRUE) => run'.pc = "success"
          /\ run.pc = "switch" => run'.pc = "success"
          /\ run'.pc = "success" <=>
                SumCounts(run'.method_counts, Range(Codes))
                    = SumCounts(PriorCounts, Range(Codes)) + 1
          /\ run'.pc = "success" => run'.attempt_no = PriorAttemptNo + 1
          /\ run'.oi # run.oi =>
                /\ run.pc = "success"
                /\ run'.oi = run.oi + 1
                /\ run'.pc = IF run.oi < Len(orders) THEN "plan" ELSE "generated"
                /\ (~run'.paid /\ orders[run.oi].order_status # CANCELLED_STATUS) =>
                      /\ run'.rows[Len(run'.rows)] = ForcedRowFrom(run)
                      /\ run'.attempt_no = run.attempt_no + 1
      ]_vars

\* An order was resolved by force after three attempts, two of them with the
\* first method: a stay coin and a switch draw were made on the way.
C31_Witness ==
    /\ EveryMethodAttemptable
    /\ JustForced
    /\ Len(config) = 2
    /\ run.attempt_no = 4
    /\ run.method_counts[config[1].code] = 2
    /\ run.method_counts[config[2].code] = 1


\* ------------------------------------------------------------------------
\* C32
\* ------------------------------------------------------------------------

\* The run is inside the loop of line 321, between two of its draws.
InAttemptLoop == run.pc \in {"success", "stay", "switch", "alt"}

\* C32: the planned attempt count of every order is in
\* 1..MAX_GLOBAL_ATTEMPTS; inside the attempt loop the per-method counters
\* add up to attempt_no, the number of attempts made so far, which exceeds
\* neither the planned count nor the number of timestamps; and when an order
\* has ended they add up to attempt_no less the forced-resolution row, if
\* there is one.
C32_CountersSumToAttemptsWithinPlan ==
    /\ (run.pc # "plan" \/ run.oi > 1) =>
          run.planned_attempts \in 1..MAX_GLOBAL_ATTEMPTS
    /\ InAttemptLoop =>
          /\ SumCounts(run.method_counts, Range(Codes)) = run.attempt_no
          /\ run.attempt_no <= run.planned_attempts
          /\ run.attempt_no <= Len(run.attempt_times)
    /\ JustCompleted =>
          LET made == IF JustForced THEN run.attempt_no - 1 ELSE run.attempt_no
          IN  /\ SumCounts(run.method_counts, Range(Codes)) = made
              /\ made <= run.planned_attempts

\* The last planned attempt of an order for which MAX_GLOBAL_ATTEMPTS
\* attempts were planned is being made, both methods having been attempted.
C32_Witness ==
    /\ run.pc = "success"
    /\ run.planned_attempts = MAX_GLOBAL_ATTEMPTS
    /\ run.attempt_no = MAX_GLOBAL_ATTEMPTS
    /\ Len(config) = 2
    /\ \A m \in Range(Codes) : run.method_counts[m] >= 1


\* ------------------------------------------------------------------------
\* C33
\* ------------------------------------------------------------------------

\* C33: under the fairness of SpecTimes every call of sorted_attempt_times
\* ends; it returns the empty list when n <= 0, and otherwise exactly
\* min(n, PAYMENT_WINDOW_SECONDS - 2) timestamps, strictly increasing (hence
\* pairwise distinct), each of them base_dt + s with
\* 1 <= s <= PAYMENT_WINDOW_SECONDS - 2, whether or not a draw repeated an
\* offset of the set; a draw never takes an offset out of the set.
C33_AttemptTimesSortedDistinct ==
    /\ <>(call.fn = "sorted_attempt_times" /\ call.done)
    /\ [](call.fn = "sorted_attempt_times" /\ call.done =>
            LET times == call.result.value
            IN  /\ call.result.kind = "return"
                /\ call.n_arg <= 0 => times = <<>>
                /\ call.n_arg > 0 =>
                      Len(times) = Min(call.n_arg, PAYMENT_WINDOW_SECONDS - 2)
                /\ \A i, j \in DOMAIN times : i < j => times[i] < times[j]
                /\ \A i \in DOMAIN times :
                      /\ call.base_dt + 1 <= times[i]
                      /\ times[i] <= call.base_dt + PAYMENT_WINDOW_SECONDS - 2)
    /\ [][call.chosen \subseteq call'.chosen]_vars

\* More timestamps were asked for than the window has offsets, draws
\* repeated offsets of the set, and the call returned one timestamp per
\* offset of the window.
C33_Witness ==
    /\ call.fn = "sorted_attempt_times"
    /\ call.done
    /\ call.repeated
    /\ call.n_arg > PAYMENT_WINDOW_SECONDS - 2
    /\ Len(call.result.value) = PAYMENT_WINDOW_SECONDS - 2


\* ------------------------------------------------------------------------
\* C34
\* ------------------------------------------------------------------------

\* The call has built its working lists (lines 182-183).
PoolBuilt ==
    /\ call.fn = "sample_unique_products_weighted"
    /\ call.pc \in {"round", "done"}
    /\ call.k_arg > 0
    /\ Len(call.candidate_ids) > 0

\* C34: once the working lists are built and after every turn of the loop,
\* the pool and the weight list have the same length, the weight at every
\* position is that of the candidate at the same position of the pool, and
\* the elements chosen followed by the pool hold every candidate exactly
\* once; a turn that draws appends one candidate of the pool to the chosen
\* elements and takes that candidate, and no other, out of the pool.
C34_PoolAndWeightsStayAligned ==
    /\ [](PoolBuilt =>
            LET all == call.chosen \o call.pool
            IN  /\ Len(call.pool) = Len(call.weights)
                /\ \A i \in DOMAIN call.pool :
                      call.weights[i] = WeightOf(call.weights_map, call.pool[i])
                /\ Len(all) = Len(call.candidate_ids)
                /\ Range(all) = Range(call.candidate_ids)
                /\ \A i, j \in DOMAIN all : i # j => all[i] # all[j])
    /\ [][(PoolBuilt /\ call'.rounds = call.rounds + 1) =>
              \E x \in Range(call.pool) :
                  /\ call'.chosen = Append(call.chosen, x)
                  /\ Range(call'.pool) = Range(call.pool) \ {x}
                  /\ Len(call'.pool) = Len(call.pool) - 1]_vars

\* Of three candidates the first two were drawn, the first one first: the
\* last candidate, of weight zero, was moved to the head of the pool with its
\* weight, and the loop stopped.
C34_Witness ==
    /\ PoolBuilt
    /\ call.done
    /\ Len(call.candidate_ids) = 3
    /\ call.rounds = 2
    /\ call.chosen[1] = call.candidate_ids[1]
    /\ call.pool = <<call.candidate_ids[3]>>
    /\ call.weights = <<0>>
    /\ WeightOf(call.weights_map, call.candidate_ids[2]) = 1


\* ------------------------------------------------------------------------
\* C35
\* ------------------------------------------------------------------------

\* ceil(n / b) for b >= 1
CeilDiv(n, b) == (n + b - 1) \div b

\* C35: for a threshold b >= 1 and while no flush fails, no empty chunk is
\* handed to storage, every chunk handed has been committed before the loop
\* takes the next row (storage holds the chunks handed, and a commit follows
\* every executemany), and every chunk handed during the loop has exactly b
\* rows; when insert_payments_in_batches has returned for n rows it has
\* handed ceil(n/b) chunks, all of b rows but the last, which has between 1
\* and b rows, it has made no storage call for n = 0, and it has returned
\* (n, ceil(n/b)) (checked under SpecStore).
C35_ChunkCountAndSizes ==
    (store.error = "none" /\ store.batch_size >= 1) =>
        LET b == store.batch_size
            n == Len(store.rows)
            j == Len(store.handed)
        IN  /\ \A c \in 1..j : Len(store.handed[c]) >= 1
            /\ store.pc = "insert" =>
                  /\ \A c \in 1..j : Len(store.handed[c]) = b
                  /\ store.table = Flatten(store.handed)
                  /\ store.tx = store.table
                  /\ j >= 1 => store.log[Len(store.log)] = "commit"
            /\ \A k \in DOMAIN store.log :
                  store.log[k] = "executemany" =>
                      k < Len(store.log) /\ store.log[k + 1] = "commit"
            /\ ReturnedWithoutError =>
                  /\ j = CeilDiv(n, b)
                  /\ \A c \in 1..(j - 1) : Len(store.handed[c]) = b
                  /\ j >= 1 => Len(store.handed[j]) \in 1..b
                  /\ n = 0 => CallCount("executemany") = 0
                  /\ CallCount("executemany") = j
                  /\ store.result = <<n, CeilDiv(n, b)>>

\* Five rows under a threshold of 2 went to storage in chunks of 2, 2 and 1
\* rows, and (5, 3) was returned.
C35_Witness ==
    /\ ReturnedWithoutError
    /\ store.batch_size = 2
    /\ Len(store.rows) = 5
    /\ ChunkSizes = <<2, 2, 1>>
    /\ store.result = <<5, 3>>


\* ------------------------------------------------------------------------
\* C36
\* ------------------------------------------------------------------------

\* run() is over: it has returned, or an exception has left it.
RunOver == store.pc \in {"returned", "raised"}

\* C36: no call is made on the connection after its close; when run() is
\* over, however it ended once the connection was opened, the connection has
\* been closed exactly once, by the last call made on it; and when it ended
\* on a storage error or on a runtime error, the call before the close is a
\* rollback (checked under SpecConnection).
C36_ConnectionClosedOnce ==
    /\ \A k \in DOMAIN store.log : store.log[k] = "close" => k = Len(store.log)
    /\ RunOver =>
          /\ CallCount("close") = 1
          /\ store.log[Len(store.log)] = "close"
          /\ store.tx = store.table
          /\ store.error \in {"mysql", "runtime"} =>
                /\ Len(store.log) >= 2
                /\ store.log[Len(store.log) - 1] = "rollback"


\* ------------------------------------------------------------------------
\* C37
\* ------------------------------------------------------------------------

\* The generation of the rows raised, or a batch insert failed.
FailedAfterClearing == store.error = "value" \/ BatchRejected

\* C37: when the generation of the rows begins, the deletion of the existing
\* payments has been committed (storage is empty, the last two calls are the
\* DELETE and its commit) and nothing has been inserted; and when the
\* generation raises or a batch insert fails, the run is over and storage
\* holds the batches the run committed before the failure and nothing else,
\* whatever `payments` held before the run (checked under SpecStore).
C37_ClearingCommittedBeforeGeneration ==
    /\ store.pc = "generate" =>
          /\ store.table = <<>>
          /\ store.tx = <<>>
          /\ store.handed = <<>>
          /\ Len(store.log) >= 2
          /\ store.log[Len(store.log) - 1] = "delete"
          /\ store.log[Len(store.log)] = "commit"
          /\ CallCount("executemany") = 0
    /\ FailedAfterClearing =>
          /\ RunOver
          /\ store.table = Flatten(SubSeq(store.handed, 1, store.batches))
          /\ store.tx = store.table
          /\ store.batches = 0 => store.table = <<>>

\* `payments` held two rows, the first batch insert failed and was rolled
\* back: storage is empty.
C37_Witness ==
    /\ store.old = Rows(2)
    /\ BatchRejected
    /\ Len(store.handed) = 1
    /\ "rollback" \in Range(store.log)
    /\ store.table = <<>>


\* ------------------------------------------------------------------------
\* C38
\* ------------------------------------------------------------------------

\* The step is the success draw of an attempt whose method has no id, and
\* the draw says success.
SkippedAttemptDrawsSuccess ==
    /\ AtSkippedAttempt
    /\ \E u \in RandomValues :
         /\ IsSuccess(u, Cfg(run.method).success_rate)
         /\ run' = AfterSuccessDraw(run, u)

PlanReturned == call.fn = "plan_orders_for_customers" /\ call.done

\* The number of times an id occurs in a plan.
Occurrences(plan, cid) == Cardinality({j \in DOMAIN plan : plan[j] = cid})

====
